---- MODULE Spec2Model ----
(***************************************************************************)
(* Event delivery layer of the order-processing services: the Redis        *)
(* stream publisher, the consumer-group reader (RedisStreamConsumer), its  *)
(* retry executor (_process_with_retry) and the event handlers of the      *)
(* order service and the notification service.                             *)
(*                                                                         *)
(* The specifications share the definitions:                               *)
(*   Spec       the order service and the notification service consuming   *)
(*              one stream with their route_event handlers; FairSpec adds  *)
(*              weak fairness of the two consumers' steps;                 *)
(*   SpecOrderOnly the order service alone, with events of a type it has   *)
(*              no handler for;                                            *)
(*   SpecLib    RedisStreamConsumer.consume run by two consumers of one    *)
(*              group with an arbitrary handler (each attempt returns      *)
(*              true, returns false or raises); FairLib adds weak          *)
(*              fairness of the consumers' steps;                          *)
(*   SpecRetry  _process_with_retry alone, for every max_retries up to a   *)
(*              bound;                                                     *)
(*   SpecTrim   consume started on a stream that holds maxlen entries      *)
(*              while a producer appends; FairTrim adds weak fairness;     *)
(*   SpecCancel consume of one consumer stopped by KeyboardInterrupt;      *)
(*              FairCancel adds weak fairness;                             *)
(*   SpecBroker consume of one consumer whose broker calls may fail;       *)
(*   SpecGateway the API gateway's create_order, statement by statement;   *)
(*   SpecCodec  an event constructed from the classes of schemas.py as the *)
(*              module defines them, then through to_dict and from_dict;   *)
(*   SpecDecode from_dict of the two event classes applied to a            *)
(*              dictionary;                                                *)
(*   SpecPub    RedisStreamPublisher.publish, statement by statement;      *)
(*   SpecMark   mark_event_processed called by two processes at once;     *)
(*   SpecRace   the notification service's handle_order_status_updated run *)
(*              by two processes at once for one event, statement by       *)
(*              statement;                                                 *)
(*   SpecListen the API gateway's listen_order_updates command reading     *)
(*              batches of the stream.                                     *)
(***************************************************************************)
EXTENDS Integers, Sequences, FiniteSets, TLC

VARIABLES
    stream,         \* the broker's log: sequence of [id, fields]
    lastId,         \* last entry id the broker assigned (XADD)
    groups,         \* consumer groups that exist (XGROUP CREATE)
    lastDelivered,  \* per group: last-delivered entry id
    pending,        \* per group: set of <<entry id, consumer>> (the PEL)
    pc,             \* per consumer: position in consume / _process_with_retry
    cur,            \* per consumer: msg_id of the entry being dispatched
    event,          \* per consumer: the decoded event dictionary
    maxRetries,     \* per consumer: max_retries of the running retry call
    attempt,        \* per consumer: loop variable of _process_with_retry
    result,         \* per consumer: what _process_with_retry returned
    log,            \* per consumer: attempts and sleeps of the running call
    orderDb,        \* order service database
    notifDb,        \* notification service database
    outbox,         \* e-mails handed to send_mail successfully
    uuids,          \* number of uuid4() values drawn so far
    produced,       \* entries added by producers outside the services
    hist,           \* per group: deliveries, handler calls, acks, outcomes
    dbFault,        \* the database failure the order service will meet next
    pub,            \* a caller of RedisStreamPublisher.publish
    mark,           \* concurrent callers of mark_event_processed and their table
    gw,             \* the API gateway: create_order and its Order table
    codec,          \* an event put through to_dict and from_dict
    race,           \* two processes running the notification handler at once
    lsn             \* the API gateway's listen_order_updates command

vars == <<stream, lastId, produced, groups, lastDelivered, pending, pc, cur, event,
          maxRetries, attempt, result, log, orderDb, notifDb, outbox, uuids,
          hist, dbFault, pub, mark, gw, codec, race, lsn>>

brokerVars == <<stream, lastId, groups, lastDelivered, pending>>
retryVars  == <<maxRetries, attempt, result, log>>
dbVars     == <<orderDb, notifDb, outbox, uuids>>
auxVars    == <<dbFault, pub, mark, gw, codec, race, lsn>>

-----------------------------------------------------------------------------
(* Bounds of the model *)

\* entries published by producers outside the two services
MaxPublish == 2
\* largest max_retries SpecRetry draws
MaxRetriesBound == 4
\* database failures injected into the order service
MaxFaults == 1
\* largest OrderItem insert (counted from 1) a database failure may hit
MaxFaultAt == 2
\* calls of mark_event_processed each concurrent caller makes
MaxMarks == 2
\* calls of publish made one after the other
MaxPubCalls == 3
\* times each concurrent process is handed the same OrderStatusUpdated event
MaxRaceCalls == 2
\* entries appended to the stream the gateway's listener reads
MaxListenPublish == 2
\* calls of channel_layer.group_send that raise
MaxSendFaults == 1
\* requests the gateway's create_order serves
MaxRequests == 3
\* products of the events put through to_dict and from_dict
MaxProducts == 2
\* entries the consumer of SpecTrim is followed for
MaxDeliveries == 1
\* entries appended to the full stream of SpecTrim
MaxTrimPublish == 1
\* broker calls of consume that fail with a connection error
MaxBrokerFaults == 2

(* Program constants *)

\* consume passes max_retries=3
ConsumeMaxRetries == 3
\* xadd(..., maxlen=10000)
MaxLen == 10000
\* the listener reads with count=10
ListenCount == 10

-----------------------------------------------------------------------------
(* Consumers and groups *)

OrderGroup == "order-service"
NotifGroup == "notification-service"
LibGroup   == "lib-group"

Groups == {OrderGroup, NotifGroup, LibGroup}

OrderConsumer == "order-consumer-1"
NotifConsumer == "notification-consumer-1"
LibConsumer   == "lib-consumer-1"
LibConsumer2  == "lib-consumer-2"

Consumers == {OrderConsumer, NotifConsumer, LibConsumer, LibConsumer2}

LibConsumers == {LibConsumer, LibConsumer2}

ServiceConsumers == {OrderConsumer, NotifConsumer}

\* processes that call mark_event_processed at the same time
MarkCallers == {OrderConsumer, "order-consumer-2"}

GroupOf(c) ==
    CASE c = OrderConsumer -> OrderGroup
      [] c = NotifConsumer -> NotifGroup
      [] OTHER -> LibGroup

-----------------------------------------------------------------------------
(* EventType and the event dictionaries *)

ORDER_CREATED == "OrderCreated"
ORDER_STATUS_UPDATED == "OrderStatusUpdated"

Has(d, k) == k \in DOMAIN d

\* dict.get(k, default)
Get(d, k, default) == IF Has(d, k) THEN d[k] ELSE default

NoValue == "None"

\* BaseEvent.to_dict
to_dict(e) ==
    [event_type |-> e.event_type,
     event_id   |-> e.event_id,
     timestamp  |-> e.timestamp,
     version    |-> e.version,
     data       |-> e.data]

\* OrderCreatedEvent.__post_init__ : event_type and data are derived
OrderCreatedEvent(event_id, timestamp, version, order_id, user_id, products, total_amount, shipping_address, user_email) ==
    [event_type |-> ORDER_CREATED,
     event_id   |-> event_id,
     timestamp  |-> timestamp,
     version    |-> version,
     order_id   |-> order_id,
     user_id    |-> user_id,
     products   |-> products,
     total_amount |-> total_amount,
     shipping_address |-> shipping_address,
     user_email |-> user_email,
     data |-> [order_id |-> order_id,
               user_id |-> user_id,
               products |-> [i \in DOMAIN products |->
                                [product_id |-> products[i].product_id,
                                 quantity   |-> products[i].quantity,
                                 price      |-> products[i].price,
                                 name       |-> products[i].name]],
               total_amount |-> total_amount,
               shipping_address |-> shipping_address,
               user_email |-> user_email]]

\* OrderStatusUpdatedEvent.__post_init__
OrderStatusUpdatedEvent(event_id, timestamp, version, order_id, status, previous_status, updated_at, user_email) ==
    [event_type |-> ORDER_STATUS_UPDATED,
     event_id   |-> event_id,
     timestamp  |-> timestamp,
     version    |-> version,
     order_id   |-> order_id,
     status     |-> status,
     previous_status |-> previous_status,
     updated_at |-> updated_at,
     user_email |-> user_email,
     data |-> [order_id |-> order_id,
               status |-> status,
               previous_status |-> previous_status,
               updated_at |-> updated_at,
               user_email |-> user_email]]

EnvelopeKeys == {"event_type", "event_id", "timestamp", "data"}
OrderCreatedKeys == {"order_id", "user_id", "products", "total_amount",
                     "shipping_address", "user_email"}
ProductKeys == {"product_id", "quantity", "price"}
OrderStatusUpdatedKeys == {"order_id", "status", "previous_status",
                           "updated_at"}

\* a subscript d[k] of a missing key raises KeyError
OrderCreatedRaises(d) ==
    \/ ~ (EnvelopeKeys \subseteq DOMAIN d)
    \/ ~ (OrderCreatedKeys \subseteq DOMAIN d.data)
    \/ \E i \in DOMAIN d.data.products :
          ~ (ProductKeys \subseteq DOMAIN d.data.products[i])

\* OrderCreatedEvent.from_dict, where it does not raise
OrderCreatedFromDict(d) ==
    OrderCreatedEvent(
        d.event_id, d.timestamp, Get(d, "version", "1.0"),
        d.data.order_id, d.data.user_id,
        [i \in DOMAIN d.data.products |->
            [product_id |-> d.data.products[i].product_id,
             quantity   |-> d.data.products[i].quantity,
             price      |-> d.data.products[i].price,
             name       |-> Get(d.data.products[i], "name", NoValue)]],
        d.data.total_amount, d.data.shipping_address, d.data.user_email)

OrderStatusUpdatedStrict(d) ==
    \/ ~ (EnvelopeKeys \subseteq DOMAIN d)
    \/ ~ (OrderStatusUpdatedKeys \cup {"user_email"} \subseteq DOMAIN d.data)
\* user_email is read with event_data.get("user_email", "")
OrderStatusUpdatedRaises(d) ==
    \/ ~ (EnvelopeKeys \subseteq DOMAIN d)
    \/ ~ (OrderStatusUpdatedKeys \subseteq DOMAIN d.data)

\* OrderStatusUpdatedEvent.from_dict, where it does not raise
OrderStatusUpdatedFromDict(d) ==
    OrderStatusUpdatedEvent(
        d.event_id, d.timestamp, Get(d, "version", "1.0"),
        d.data.order_id, d.data.status, d.data.previous_status,
        d.data.updated_at, Get(d.data, "user_email", ""))

\* cls(**args) for the two event classes
Construct(cls, a) ==
    IF cls = ORDER_CREATED
       THEN OrderCreatedEvent(a.event_id, a.timestamp, a.version, a.order_id,
                a.user_id, a.products, a.total_amount, a.shipping_address,
                a.user_email)
       ELSE OrderStatusUpdatedEvent(a.event_id, a.timestamp, a.version,
                a.order_id, a.status, a.previous_status, a.updated_at,
                a.user_email)

\* cls.from_dict(d) raises KeyError
FromDictRaises(cls, d) ==
    IF cls = ORDER_CREATED THEN OrderCreatedRaises(d)
                           ELSE OrderStatusUpdatedRaises(d)

\* cls.from_dict(d), where it does not raise
FromDict(cls, d) ==
    IF cls = ORDER_CREATED THEN OrderCreatedFromDict(d)
                           ELSE OrderStatusUpdatedFromDict(d)

-----------------------------------------------------------------------------
(* The class statements of schemas.py *)

Field(name, hasDefault) == [name |-> name, hasDefault |-> hasDefault]

\* the fields of BaseEvent in the order of the class body
BaseEventFields ==
    << Field("event_type", FALSE), Field("event_id", TRUE),
       Field("timestamp", TRUE), Field("version", TRUE), Field("data", TRUE) >>

\* a dataclass inherits the fields of its base class, its own fields follow
OrderCreatedFields ==
    BaseEventFields \o
    << Field("order_id", FALSE), Field("user_id", FALSE),
       Field("products", FALSE), Field("total_amount", FALSE),
       Field("shipping_address", FALSE), Field("user_email", FALSE) >>

OrderStatusUpdatedFields ==
    BaseEventFields \o
    << Field("order_id", FALSE), Field("status", FALSE),
       Field("previous_status", FALSE), Field("updated_at", FALSE),
       Field("user_email", FALSE) >>

FieldsOf(cls) ==
    IF cls = ORDER_CREATED THEN OrderCreatedFields ELSE OrderStatusUpdatedFields

\* @dataclass builds __init__(self, <fields in order>): a field without a
\* default after a field with a default makes the decorator raise
\* TypeError("non-default argument ... follows default argument") when the
\* class statement is executed, that is when the module is imported
DataclassRaises(fields) ==
    \E i, j \in DOMAIN fields :
        i < j /\ fields[i].hasDefault /\ ~ fields[j].hasDefault

-----------------------------------------------------------------------------
(* The wire: json.dumps / json.loads and the stream entry's fields *)

\* json.dumps(event): the text of a JSON object
JsonDumps(d) == <<"json", d>>

BadUtf8 == <<"bytes", [raw |-> "invalid-utf8"]>>
BadJson == <<"text", [raw |-> "not-json"]>>

\* fields[b"event"].decode("utf-8") raises, or json.loads raises
DecodeRaises(fields) ==
    \/ ~ Has(fields, "event")
    \/ fields.event[1] # "json"

JsonLoadsNewId(fields) == [fields.event[2] EXCEPT !.event_id = "regenerated"]
\* json.loads(fields[b"event"].decode("utf-8")), where it does not raise
JsonLoads(fields) == fields.event[2]

-----------------------------------------------------------------------------
(* The broker: XADD, XGROUP CREATE, XREADGROUP ">", XACK *)

NoEntry == [id |-> 0, fields |-> [none |-> "none"]]

\* entries an approximate MAXLEN trim may evict after an append
Excess(s) == IF Len(s) > MaxLen THEN Len(s) - MaxLen ELSE 0

\* XADD stream MAXLEN ~ 10000 * event <json>: append, then evict `drop`
\* oldest entries
XAdd(s, id, fields, drop) ==
    LET s2 == Append(s, [id |-> id, fields |-> fields])
    IN  SubSeq(s2, drop + 1, Len(s2))

\* entries of the stream never delivered to group g
NewEntries(g) ==
    {i \in 1..Len(stream) : stream[i].id > lastDelivered[g]}

\* XREADGROUP GROUP g c COUNT 1 STREAMS stream > : the index of the entry read
ReadIndex(g) ==
    CHOOSE i \in NewEntries(g) : \A j \in NewEntries(g) : i <= j

DeliveredUpToStale(g, e) == lastDelivered[g]
DeliveredUpToSkips(g, e) == e.id + 1
\* the group's last-delivered id after reading entry e
DeliveredUpTo(g, e) == e.id

PendingIds(g) == {p[1] : p \in pending[g]}

\* XACK stream g id
XAck(g, id) == [pending EXCEPT ![g] = {p \in pending[g] : p[1] # id}]

-----------------------------------------------------------------------------
(* History of each group, kept for the properties *)

EmptyHist ==
    [delivered |-> <<>>, called |-> <<>>, acked |-> <<>>,
     exhausted |-> {}, errored |-> {}, succeeded |-> {}, rejoined |-> FALSE,
     failed |-> <<>>]

Count(seq, x) == Cardinality({i \in DOMAIN seq : seq[i] = x})

Range(seq) == {seq[i] : i \in DOMAIN seq}

-----------------------------------------------------------------------------
(* _process_with_retry *)

RECURSIVE Pow2(_)
Pow2(n) == IF n = 0 THEN 1 ELSE 2 * Pow2(n - 1)

WaitTimeLinear(k) == k + 2
\* wait_time = 2 ** attempt
WaitTime(k) == Pow2(k)

OnFalseGivesUp(k, max) == "return_false"
\* the branch of a handler that returned False
OnFalse(k, max) ==
    IF k < max - 1 THEN "sleep" ELSE "return_false"

OnRaisePropagates(k, max) ==
    IF k < max - 1 THEN "sleep" ELSE "propagate"
\* the except branch of a handler that raised
OnRaise(k, max) ==
    IF k < max - 1 THEN "sleep" ELSE "return_false"

\* what the loop body does after the handler's outcome o
AfterAttempt(o, k, max) ==
    CASE o = "true"  -> "return_true"
      [] o = "false" -> OnFalse(k, max)
      [] o = "raise" -> OnRaise(k, max)

\* one iteration of the for loop, the handler's outcome being o
RetryStep(c, o) ==
    LET nxt == AfterAttempt(o, attempt[c], maxRetries[c])
    IN  /\ log' = [log EXCEPT ![c] = Append(@, <<"attempt", attempt[c], o>>)]
        /\ pc' = [pc EXCEPT ![c] =
                    CASE nxt = "sleep" -> "sleep"
                      [] nxt = "propagate" -> "except"
                      [] OTHER -> "returned"]
        /\ result' = [result EXCEPT ![c] = (nxt = "return_true")]
        /\ UNCHANGED <<attempt, maxRetries>>

\* time.sleep(wait_time), then the next iteration
Sleep(c) ==
    /\ pc[c] = "sleep"
    /\ log' = [log EXCEPT ![c] = Append(@, <<"sleep", WaitTime(attempt[c]), "">>)]
    /\ pc' = [pc EXCEPT ![c] = "attempt"]
    /\ attempt' = [attempt EXCEPT ![c] = @ + 1]
    /\ UNCHANGED <<brokerVars, produced, cur, event, maxRetries, result, dbVars, auxVars, hist>>

\* range(max_retries) is exhausted: the return False after the loop
LoopEnd(c) ==
    /\ pc[c] = "attempt"
    /\ attempt[c] >= maxRetries[c]
    /\ pc' = [pc EXCEPT ![c] = "returned"]
    /\ result' = [result EXCEPT ![c] = FALSE]
    /\ UNCHANGED <<brokerVars, produced, cur, event, maxRetries, attempt, log,
                   dbVars, auxVars, hist>>

NoteCall(c) ==
    [hist EXCEPT ![GroupOf(c)].called = Append(@, cur[c].id)]

\* an attempt of an arbitrary handler: it returns True, returns False or raises
LibAttempt(c) ==
    /\ pc[c] = "attempt"
    /\ attempt[c] < maxRetries[c]
    /\ \E o \in {"true", "false", "raise"} : RetryStep(c, o)
    /\ hist' = NoteCall(c)
    /\ UNCHANGED <<brokerVars, produced, cur, event, dbVars, auxVars>>

-----------------------------------------------------------------------------
(* RedisStreamConsumer.consume *)

CreateResetsGroup(g) == [position |-> 0, pending |-> {}]
CreateAtEnd(g) ==
    IF g \in groups
       THEN [position |-> lastDelivered[g], pending |-> pending[g]]
       ELSE [position |-> lastId, pending |-> {}]
\* the group's last-delivered id and pending entries after XGROUP CREATE
\* stream g 0 MKSTREAM: a group that exists is left as it is (BUSYGROUP)
GroupAfterCreate(g) ==
    IF g \in groups
       THEN [position |-> lastDelivered[g], pending |-> pending[g]]
       ELSE [position |-> 0, pending |-> {}]

\* xgroup_create(stream, group, id="0", mkstream=True); "group already
\* exists" is raised by the broker and passed over
XGroupCreate(c) ==
    LET g == GroupOf(c) IN
    /\ pc[c] = "init"
    /\ groups' = groups \cup {g}
    /\ lastDelivered' = [lastDelivered EXCEPT ![g] = GroupAfterCreate(g).position]
    /\ pending' = [pending EXCEPT ![g] = GroupAfterCreate(g).pending]
    /\ hist' = [hist EXCEPT ![g].rejoined =
                   @ \/ (g \in groups /\ lastDelivered[g] > 0 /\ pending[g] # {})]
    /\ pc' = [pc EXCEPT ![c] = "poll"]
    /\ UNCHANGED <<stream, lastId, produced, cur, event, retryVars, dbVars, auxVars>>

\* xreadgroup(group, consumer, {stream: ">"}, count=1) returning an entry;
\* a read that times out returns nothing and changes nothing
XReadGroup(c) ==
    LET g == GroupOf(c) IN
    /\ pc[c] = "poll"
    /\ g \in groups
    /\ NewEntries(g) # {}
    /\ LET e == stream[ReadIndex(g)] IN
        /\ lastDelivered' = [lastDelivered EXCEPT ![g] = DeliveredUpTo(g, e)]
        /\ pending' = [pending EXCEPT ![g] = @ \cup {<<e.id, c>>}]
        /\ cur' = [cur EXCEPT ![c] = e]
        /\ hist' = [hist EXCEPT ![g].delivered = Append(@, e.id)]
    /\ pc' = [pc EXCEPT ![c] = "decode"]
    /\ UNCHANGED <<stream, lastId, produced, groups, event, retryVars, dbVars, auxVars>>

NoEvent == [none |-> "none"]

\* event = json.loads(fields[b"event"].decode("utf-8")), then the call of
\* _process_with_retry(handler, event, max_retries=3)
Decode(c) ==
    /\ pc[c] = "decode"
    /\ IF DecodeRaises(cur[c].fields)
          THEN /\ pc' = [pc EXCEPT ![c] = "except"]
               /\ UNCHANGED <<event, retryVars>>
          ELSE /\ pc' = [pc EXCEPT ![c] = "attempt"]
               /\ event' = [event EXCEPT ![c] = JsonLoads(cur[c].fields)]
               /\ maxRetries' = [maxRetries EXCEPT ![c] = ConsumeMaxRetries]
               /\ attempt' = [attempt EXCEPT ![c] = 0]
               /\ log' = [log EXCEPT ![c] = <<>>]
               /\ UNCHANGED result
    /\ UNCHANGED <<brokerVars, produced, cur, dbVars, auxVars, hist>>

AckAlways(success) == TRUE
\* if success: xack(...)
ShouldAck(success) == success

ExceptAcksPoison == TRUE
\* the except branch of the dispatch: "Don't acknowledge on error"
ExceptAcks == FALSE

\* the dispatch of one entry is over: consume goes on at `where`
NextCycleAt(c, where) ==
    /\ pc' = [pc EXCEPT ![c] = where]
    /\ cur' = [cur EXCEPT ![c] = NoEntry]
    /\ event' = [event EXCEPT ![c] = NoEvent]
    /\ attempt' = [attempt EXCEPT ![c] = 0]
    /\ log' = [log EXCEPT ![c] = <<>>]
    /\ result' = [result EXCEPT ![c] = FALSE]
    /\ UNCHANGED maxRetries

\* back to the head of the while loop
NextCycle(c) == NextCycleAt(c, "poll")

\* if success: xack and log; else: log "Message not acknowledged"
AckOrLog(c) ==
    LET g  == GroupOf(c)
        id == cur[c].id
    IN
    /\ pc[c] = "returned"
    /\ pending' = IF ShouldAck(result[c]) THEN XAck(g, id) ELSE pending
    /\ hist' = [hist EXCEPT
                  ![g].acked = IF ShouldAck(result[c]) THEN Append(@, id) ELSE @,
                  ![g].succeeded = IF result[c] THEN @ \cup {id} ELSE @,
                  ![g].exhausted = IF result[c] THEN @ ELSE @ \cup {id}]
    /\ NextCycle(c)
    /\ UNCHANGED <<stream, lastId, groups, lastDelivered, produced, dbVars, auxVars>>

DispatchErrorEscapes == "raised"
\* the except clause around the dispatch of one entry logs the error and
\* does not raise: the for loops and the while loop go on
AfterDispatchError == "poll"

\* except Exception as e: logger.error(...) around the dispatch of one entry
DispatchExcept(c) ==
    LET g  == GroupOf(c)
        id == cur[c].id
    IN
    /\ pc[c] = "except"
    /\ pending' = IF ExceptAcks THEN XAck(g, id) ELSE pending
    /\ hist' = [hist EXCEPT
                  ![g].acked = IF ExceptAcks THEN Append(@, id) ELSE @,
                  ![g].errored = @ \cup {id}]
    /\ NextCycleAt(c, AfterDispatchError)
    /\ UNCHANGED <<stream, lastId, groups, lastDelivered, produced, dbVars, auxVars>>

-----------------------------------------------------------------------------
(* RedisStreamPublisher.publish *)

\* publish(stream_name, event): the entry is appended unless the xadd raises
PublishAppends(d, brokerOk) == brokerOk

-----------------------------------------------------------------------------
(* The databases of the two services *)

ValidUuids == {"uuid-o1", "uuid-o2", "uuid-u1", "uuid-p1", "uuid-p2"}

\* models.UUIDField accepts the value
IsUuid(v) == v \in ValidUuids

\* the values uuid4() returns, in the order it returns them
Uuid4(n) ==
    CASE n = 1 -> "gen-1" [] n = 2 -> "gen-2" [] n = 3 -> "gen-3"
      [] n = 4 -> "gen-4" [] n = 5 -> "gen-5" [] n = 6 -> "gen-6"
      [] n = 7 -> "gen-7" [] n = 8 -> "gen-8" [] OTHER -> "gen-9"

NeverProcessed(processed, event_id) == FALSE
\* ProcessedEvent.objects.filter(event_id=event_id).exists()
is_event_processed(processed, event_id) ==
    \E r \in processed : r.event_id = event_id

\* ProcessedEvent.objects.get_or_create(event_id=..., defaults={...})
mark_event_processed(processed, event_id, event_type) ==
    IF is_event_processed(processed, event_id)
       THEN processed
       ELSE processed \cup {[event_id |-> event_id, event_type |-> event_type]}

OrderExists(db, order_id) == \E o \in db.orders : o.order_id = order_id

-----------------------------------------------------------------------------
(* Order service: orders/event_handlers.py *)

\* the rows OrderItem.objects.create writes before an insert raises: a
\* product id is refused, or the database fails at insert number faultAt
RECURSIVE ItemsWritten(_, _, _, _)
ItemsWritten(order_id, products, i, faultAt) ==
    IF i > Len(products) \/ ~ IsUuid(products[i].product_id) \/ i = faultAt
       THEN <<>>
       ELSE <<[order |-> order_id,
               product_id |-> products[i].product_id,
               quantity |-> products[i].quantity,
               price |-> products[i].price,
               name |-> IF products[i].name = NoValue THEN ""
                        ELSE products[i].name]>>
            \o ItemsWritten(order_id, products, i + 1, faultAt)

SetStatus(orders, order_id, status) ==
    {IF o.order_id = order_id THEN [o EXCEPT !.status = status] ELSE o :
        o \in orders}

\* the result of a handler: its verdict, the database it leaves, and the
\* event dictionaries it handed to publish
Verdict(ret, db, published) == [ret |-> ret, db |-> db, published |-> published]

OrderFinishUnlessPublishFailed(ev, db, order, items, pubOk, fresh) ==
    LET withOrder == [db EXCEPT !.orders = @ \cup {order},
                                !.items = @ \o items]
    IN  Verdict(pubOk,
                [withOrder EXCEPT
                    !.orders = SetStatus(@, ev.order_id, "processing"),
                    !.processed = IF pubOk
                                     THEN mark_event_processed(@, ev.event_id,
                                                               ORDER_CREATED)
                                     ELSE @],
                <<to_dict(OrderStatusUpdatedEvent(
                      fresh, "t1", "1.0", ev.order_id, "processing",
                      order.status, "t1", order.user_email))>>)

\* handle_order_created from "Update status to processing" to the end: the
\* status is saved, the OrderStatusUpdated event is published, and whatever
\* publish returned the event is marked processed and True is returned
OrderFinish(ev, db, order, items, pubOk, fresh) ==
    LET withOrder == [db EXCEPT !.orders = @ \cup {order},
                                !.items = @ \o items]
    IN  Verdict(TRUE,
                [withOrder EXCEPT
                    !.orders = SetStatus(@, ev.order_id, "processing"),
                    !.processed = mark_event_processed(@, ev.event_id,
                                                       ORDER_CREATED)],
                <<to_dict(OrderStatusUpdatedEvent(
                      fresh, "t1", "1.0", ev.order_id, "processing",
                      order.status, "t1", order.user_email))>>)

\* Order.objects.create(order_id=..., ...) raises: a value is not a UUID, or
\* a row with the primary key exists
OrderCreateRaises(ev, db) ==
    ~ IsUuid(ev.order_id) \/ ~ IsUuid(ev.user_id) \/ OrderExists(db, ev.order_id)

\* handle_order_created(event_data) reaches OrderItem insert number faultAt
MeetsFault(d, db, faultAt) ==
    /\ Get(d, "event_type", NoValue) = ORDER_CREATED
    /\ ~ OrderCreatedRaises(d)
    /\ LET ev == OrderCreatedFromDict(d) IN
        /\ ~ is_event_processed(db.processed, ev.event_id)
        /\ ~ OrderCreateRaises(ev, db)
        /\ faultAt \in 1..Len(ev.products)
        /\ \A j \in 1..(faultAt - 1) : IsUuid(ev.products[j].product_id)

\* handle_order_created(event_data); the database fails at OrderItem insert
\* number faultAt (0: it does not fail)
handle_order_created(d, db, pubOk, fresh, faultAt) ==
    IF OrderCreatedRaises(d) THEN Verdict(FALSE, db, <<>>)
    ELSE
    LET ev == OrderCreatedFromDict(d)
        order == [order_id |-> ev.order_id,
                  user_id |-> ev.user_id,
                  status |-> "pending",
                  total_amount |-> ev.total_amount,
                  shipping_address |-> ev.shipping_address,
                  user_email |-> ev.user_email]
        items == ItemsWritten(ev.order_id, ev.products, 1, faultAt)
    IN
    IF is_event_processed(db.processed, ev.event_id)
       THEN Verdict(TRUE, db, <<>>)
    ELSE IF OrderCreateRaises(ev, db)
       \* Order.objects.create raised: nothing written
       THEN Verdict(FALSE, db, <<>>)
    ELSE IF Len(items) < Len(ev.products)
       \* an OrderItem.objects.create raised: the rows before it stay
       THEN Verdict(FALSE,
                    [db EXCEPT !.orders = @ \cup {order}, !.items = @ \o items],
                    <<>>)
    ELSE OrderFinish(ev, db, order, items, pubOk, fresh)

\* handle_order_status_updated(event_data) of the order service
order_handle_order_status_updated(d, db) ==
    IF OrderStatusUpdatedRaises(d) THEN Verdict(FALSE, db, <<>>)
    ELSE
    LET ev == OrderStatusUpdatedFromDict(d) IN
    IF is_event_processed(db.processed, ev.event_id)
       THEN Verdict(TRUE, db, <<>>)
    ELSE IF ~ IsUuid(ev.order_id) \/ ~ OrderExists(db, ev.order_id)
       THEN Verdict(FALSE, db, <<>>)
    ELSE Verdict(TRUE,
                 [db EXCEPT
                    !.orders = SetStatus(@, ev.order_id, ev.status),
                    !.processed = mark_event_processed(@, ev.event_id,
                                                       ORDER_STATUS_UPDATED)],
                 <<>>)

OrderRouteAcceptsUnknown(d, db, pubOk, fresh, faultAt) == Verdict(TRUE, db, <<>>)
\* route_event(event) of the order service
order_route_event(d, db, pubOk, fresh, faultAt) ==
    LET event_type == Get(d, "event_type", NoValue) IN
    IF event_type = ORDER_CREATED
       THEN handle_order_created(d, db, pubOk, fresh, faultAt)
    ELSE IF event_type = ORDER_STATUS_UPDATED
       THEN order_handle_order_status_updated(d, db)
    ELSE Verdict(FALSE, db, <<>>)

-----------------------------------------------------------------------------
(* Notification service: notifications/event_handlers.py *)

\* the result of the notification handler: verdict, database, outbox
NVerdict(ret, db, box) == [ret |-> ret, db |-> db, box |-> box]

\* send_order_status_email: send_mail delivers (sendOk) or raises; the
\* outbox entry also notes the event it was sent for
SendEmail(box, ev, sendOk) ==
    IF sendOk
       THEN Append(box, [order_id |-> ev.order_id, status |-> ev.status,
                         to |-> ev.user_email, for_event |-> ev.event_id])
       ELSE box

NotificationRow(ev, success) ==
    [notification_type |-> "email",
     recipient |-> ev.user_email,
     status |-> IF success THEN "sent" ELSE "failed",
     related_order_id |-> ev.order_id]

\* handle_order_status_updated(event_data) of the notification service
notif_handle_order_status_updated(d, db, box, sendOk) ==
    IF OrderStatusUpdatedRaises(d) THEN NVerdict(FALSE, db, box)
    ELSE
    LET ev == OrderStatusUpdatedFromDict(d) IN
    IF is_event_processed(db.processed, ev.event_id)
       THEN NVerdict(TRUE, db, box)
    ELSE IF ~ IsUuid(ev.order_id)
       \* Notification.objects.create raised after the e-mail was sent
       THEN NVerdict(FALSE, db, SendEmail(box, ev, sendOk))
    ELSE NVerdict(sendOk,
                  [db EXCEPT
                     !.notifications = Append(@, NotificationRow(ev, sendOk)),
                     !.processed = mark_event_processed(@, ev.event_id,
                                                        ORDER_STATUS_UPDATED)],
                  SendEmail(box, ev, sendOk))

NotifRouteRejectsUnknown(d, db, box, sendOk) ==
    IF Get(d, "event_type", NoValue) = ORDER_STATUS_UPDATED
       THEN notif_handle_order_status_updated(d, db, box, sendOk)
       ELSE NVerdict(FALSE, db, box)
\* route_event(event) of the notification service
notif_route_event(d, db, box, sendOk) ==
    IF Get(d, "event_type", NoValue) = ORDER_STATUS_UPDATED
       THEN notif_handle_order_status_updated(d, db, box, sendOk)
       ELSE NVerdict(TRUE, db, box)

-----------------------------------------------------------------------------
(* The handler attempts of the two services inside _process_with_retry *)

Outcome(ret) == IF ret THEN "true" ELSE "false"

\* the database connection of the order service is about to fail at an
\* OrderItem insert of the next handle_order_created that gets that far
InjectFault ==
    /\ dbFault.at = 0
    /\ dbFault.injected < MaxFaults
    /\ \E k \in 1..MaxFaultAt :
          dbFault' = [at |-> k, injected |-> dbFault.injected + 1]
    /\ UNCHANGED <<brokerVars, produced, pc, cur, event, retryVars, dbVars,
                   hist, pub, mark, gw, codec, race, lsn>>

\* handler(event) with handler = orders.event_handlers.route_event; the
\* broker accepts the handler's publish (pubOk) or the xadd raises
OrderAttempt(c) ==
    /\ pc[c] = "attempt"
    /\ attempt[c] < maxRetries[c]
    /\ dbFault' = IF MeetsFault(event[c], orderDb, dbFault.at)
                     THEN [dbFault EXCEPT !.at = 0]
                     ELSE dbFault
    /\ \E pubOk \in BOOLEAN :
        LET r == order_route_event(event[c], orderDb, pubOk, Uuid4(uuids + 1),
                                   dbFault.at)
            appended == r.published # <<>> /\ PublishAppends(r.published[1], pubOk)
        IN  /\ orderDb' = r.db
            /\ uuids' = IF r.published # <<>> THEN uuids + 1 ELSE uuids
            /\ IF appended
                  THEN /\ lastId' = lastId + 1
                       /\ \E drop \in 0..Excess(Append(stream, NoEntry)) :
                             stream' = XAdd(stream, lastId + 1,
                                            [event |-> JsonDumps(r.published[1])],
                                            drop)
                  ELSE UNCHANGED <<stream, lastId>>
            /\ RetryStep(c, Outcome(r.ret))
    /\ hist' = NoteCall(c)
    /\ UNCHANGED <<produced, groups, lastDelivered, pending, cur, event,
                   notifDb, outbox, pub, mark, gw, codec, race, lsn>>

\* handler(event) with handler = notifications.event_handlers.route_event;
\* send_mail delivers the e-mail (sendOk) or raises
NotifAttempt(c) ==
    /\ pc[c] = "attempt"
    /\ attempt[c] < maxRetries[c]
    /\ \E sendOk \in BOOLEAN :
        LET r == notif_route_event(event[c], notifDb, outbox, sendOk)
        IN  /\ notifDb' = r.db
            /\ outbox' = r.box
            /\ RetryStep(c, Outcome(r.ret))
    /\ hist' = NoteCall(c)
    /\ UNCHANGED <<brokerVars, produced, cur, event, orderDb, uuids, auxVars>>

-----------------------------------------------------------------------------
(* Producers *)

\* an arbitrary JSON object with an event_id
LibEvent ==
    [event_type |-> "AnyEvent", event_id |-> "e1", timestamp |-> "t0",
     version |-> "1.0", data |-> [order_id |-> "o1"]]

\* what a producer may put in an entry: a JSON object under the field
\* "event", no field "event", bytes that are not UTF-8, text that is not JSON
LibPayloads ==
    << [event |-> JsonDumps(LibEvent)],
       [other |-> "x"],
       [event |-> BadUtf8],
       [event |-> BadJson] >>

\* a producer's XADD of `fields`
Produce(fields) ==
    /\ produced < MaxPublish
    /\ produced' = produced + 1
    /\ lastId' = lastId + 1
    /\ \E drop \in 0..Excess(Append(stream, NoEntry)) :
          stream' = XAdd(stream, lastId + 1, fields, drop)
    /\ UNCHANGED <<groups, lastDelivered, pending, pc, cur, event, retryVars,
                   dbVars, auxVars, hist>>

LibProduce == \E i \in DOMAIN LibPayloads : Produce(LibPayloads[i])

-----------------------------------------------------------------------------
(* Callers of publish and of mark_event_processed that have not started *)

PubIdle ==
    [pc |-> "idle", d |-> NoEvent, xadds |-> 0, appended |-> FALSE,
     ret |-> FALSE, calls |-> 0]

MarkIdle ==
    [rows |-> <<>>,
     pc |-> [p \in MarkCallers |-> "idle"],
     arg |-> [p \in MarkCallers |-> NoValue],
     existed |-> [p \in MarkCallers |-> FALSE],
     calls |-> [p \in MarkCallers |-> 0]]

\* the gateway has served no request
GwIdle ==
    [pc |-> "idle", data |-> NoEvent, order_id |-> NoValue, event |-> NoEvent,
     orders |-> {}, responses |-> <<>>, calls |-> 0]

\* no event is being converted
CodecIdle == [pc |-> "idle"]

\* processes that run the notification handler at the same time
RaceCallers == {NotifConsumer, "notification-consumer-2"}

\* neither process has been handed the event
RaceIdle ==
    [pc |-> [p \in RaceCallers |-> "idle"],
     success |-> [p \in RaceCallers |-> FALSE],
     ret |-> [p \in RaceCallers |-> NoValue],
     calls |-> [p \in RaceCallers |-> 0],
     processed |-> {}, notifications |-> <<>>, outbox |-> <<>>, uuids |-> 0]

\* the listener has not been started
LsnIdle ==
    [pc |-> "off", created |-> FALSE, lastDelivered |-> 0, pending |-> {},
     batch |-> <<>>, i |-> 0, event |-> NoEvent, sent |-> <<>>, acked |-> <<>>,
     raised |-> {}, faults |-> 0]

-----------------------------------------------------------------------------
(* Initial states and the specifications *)

EmptyOrderDb == [orders |-> {}, items |-> <<>>, processed |-> {}]
EmptyNotifDb == [notifications |-> <<>>, processed |-> {}]

\* nothing has run yet
InitBase ==
    /\ produced = 0
    /\ groups = {}
    /\ lastDelivered = [g \in Groups |-> 0]
    /\ pending = [g \in Groups |-> {}]
    /\ cur = [c \in Consumers |-> NoEntry]
    /\ attempt = [c \in Consumers |-> 0]
    /\ result = [c \in Consumers |-> FALSE]
    /\ log = [c \in Consumers |-> <<>>]
    /\ orderDb = EmptyOrderDb
    /\ notifDb = EmptyNotifDb
    /\ outbox = <<>>
    /\ uuids = 0
    /\ hist = [g \in Groups |-> EmptyHist]
    /\ dbFault = [at |-> 0, injected |-> 0]
    /\ pub = PubIdle
    /\ mark = MarkIdle
    /\ gw = GwIdle
    /\ race = RaceIdle
    /\ lsn = LsnIdle

InitRest ==
    /\ InitBase
    /\ codec = CodecIdle

\* the stream does not exist yet
InitCommon ==
    /\ stream = <<>>
    /\ lastId = 0
    /\ InitRest

\* the OrderCreated event create_order publishes
GoodOrderCreated ==
    to_dict(OrderCreatedEvent("e1", "t0", "1.0", "uuid-o1", "uuid-u1",
        <<[product_id |-> "uuid-p1", quantity |-> 1, price |-> 10, name |-> "n"],
          [product_id |-> "uuid-p2", quantity |-> 2, price |-> 5, name |-> "m"]>>,
        20, "addr", "a@b"))

\* an OrderCreated event whose second product has no valid product id
BadItemOrderCreated ==
    to_dict(OrderCreatedEvent("e3", "t0", "1.0", "uuid-o2", "uuid-u1",
        <<[product_id |-> "uuid-p1", quantity |-> 1, price |-> 10, name |-> "n"],
          [product_id |-> "not-a-uuid", quantity |-> 1, price |-> 10, name |-> "n"]>>,
        20, "addr", "a@b"))

\* a JSON object without the key event_type
NoTypeEvent ==
    [event_id |-> "e2", timestamp |-> "t0", version |-> "1.0",
     data |-> [order_id |-> "uuid-o1"]]

ServicePayloads ==
    << [event |-> JsonDumps(GoodOrderCreated)],
       [event |-> JsonDumps(NoTypeEvent)],
       [event |-> JsonDumps(BadItemOrderCreated)],
       [event |-> BadJson] >>

ServiceProduce == \E i \in DOMAIN ServicePayloads : Produce(ServicePayloads[i])

\* one step of the order service's consumer
OrderConsume(c) ==
    \/ XGroupCreate(c)
    \/ XReadGroup(c)
    \/ Decode(c)
    \/ OrderAttempt(c)
    \/ Sleep(c)
    \/ AckOrLog(c)
    \/ DispatchExcept(c)

\* one step of the notification service's consumer
NotifConsume(c) ==
    \/ XGroupCreate(c)
    \/ XReadGroup(c)
    \/ Decode(c)
    \/ NotifAttempt(c)
    \/ Sleep(c)
    \/ AckOrLog(c)
    \/ DispatchExcept(c)

\* the two services are started on an empty stream
Init ==
    /\ InitCommon
    /\ pc = [c \in Consumers |-> IF c \in ServiceConsumers THEN "init" ELSE "off"]
    /\ event = [c \in Consumers |-> NoEvent]
    /\ maxRetries = [c \in Consumers |-> ConsumeMaxRetries]

Next ==
    \/ ServiceProduce
    \/ InjectFault
    \/ OrderConsume(OrderConsumer)
    \/ NotifConsume(NotifConsumer)

Spec == Init /\ [][Next]_vars

\* the two consumer processes keep running; producers may stop
FairSpec ==
    /\ Spec
    /\ WF_vars(OrderConsume(OrderConsumer))
    /\ WF_vars(NotifConsume(NotifConsumer))

\* an event of a type of the "Future events" list of EventType
UnknownTypeEvent ==
    [event_type |-> "PaymentProcessed", event_id |-> "e4", timestamp |-> "t0",
     version |-> "1.0", data |-> [order_id |-> "uuid-o1"]]

OrderOnlyPayloads ==
    << [event |-> JsonDumps(UnknownTypeEvent)],
       [event |-> JsonDumps(NoTypeEvent)],
       [event |-> JsonDumps(GoodOrderCreated)],
       [event |-> BadJson] >>

OrderOnlyProduce == \E i \in DOMAIN OrderOnlyPayloads : Produce(OrderOnlyPayloads[i])

\* the order service is started alone on an empty stream
InitOrderOnly ==
    /\ InitCommon
    /\ pc = [c \in Consumers |-> IF c = OrderConsumer THEN "init" ELSE "off"]
    /\ event = [c \in Consumers |-> NoEvent]
    /\ maxRetries = [c \in Consumers |-> ConsumeMaxRetries]

NextOrderOnly ==
    \/ OrderOnlyProduce
    \/ OrderConsume(OrderConsumer)

SpecOrderOnly == InitOrderOnly /\ [][NextOrderOnly]_vars

\* one step of consume run by consumer c with an arbitrary handler
LibConsume(c) ==
    \/ XGroupCreate(c)
    \/ XReadGroup(c)
    \/ Decode(c)
    \/ LibAttempt(c)
    \/ Sleep(c)
    \/ AckOrLog(c)
    \/ DispatchExcept(c)

\* consume is started by two consumers of one group
InitLib ==
    /\ InitCommon
    /\ pc = [c \in Consumers |-> IF c \in LibConsumers THEN "init" ELSE "off"]
    /\ event = [c \in Consumers |-> NoEvent]
    /\ maxRetries = [c \in Consumers |-> ConsumeMaxRetries]

NextLib ==
    \/ LibProduce
    \/ \E c \in LibConsumers : LibConsume(c)

SpecLib == InitLib /\ [][NextLib]_vars

\* the consumer processes keep running; producers may stop
FairLib == SpecLib /\ \A c \in LibConsumers : WF_vars(LibConsume(c))

\* _process_with_retry(handler, event, max_retries) is called
InitRetry ==
    /\ InitCommon
    /\ pc = [c \in Consumers |-> IF c = LibConsumer THEN "attempt" ELSE "off"]
    /\ event = [c \in Consumers |-> IF c = LibConsumer THEN LibEvent ELSE NoEvent]
    /\ \E m \in 0..MaxRetriesBound :
          maxRetries = [c \in Consumers |-> IF c = LibConsumer THEN m
                                            ELSE ConsumeMaxRetries]

NextRetry ==
    \/ LibAttempt(LibConsumer)
    \/ Sleep(LibConsumer)
    \/ LoopEnd(LibConsumer)

SpecRetry == InitRetry /\ [][NextRetry]_vars

\* no consumer is running
InitIdle ==
    /\ InitCommon
    /\ pc = [c \in Consumers |-> "off"]
    /\ event = [c \in Consumers |-> NoEvent]
    /\ maxRetries = [c \in Consumers |-> ConsumeMaxRetries]

-----------------------------------------------------------------------------
(* consume started on a stream that holds maxlen entries (SpecTrim)        *)

\* a JSON object with nothing but an event_id
SmallEvent == [event_id |-> "e0"]

\* a stream of MaxLen entries, the second of which is not JSON
FullStream ==
    [i \in 1..MaxLen |->
        [id |-> i,
         fields |-> IF i = 2 THEN [event |-> BadJson]
                    ELSE [event |-> JsonDumps(SmallEvent)]]]

InitTrim ==
    /\ stream = FullStream
    /\ lastId = MaxLen
    /\ InitRest
    /\ pc = [c \in Consumers |-> IF c = LibConsumer THEN "init" ELSE "off"]
    /\ event = [c \in Consumers |-> NoEvent]
    /\ maxRetries = [c \in Consumers |-> ConsumeMaxRetries]

\* the model follows the consumer for its first MaxDeliveries entries
TrimRead(c) ==
    /\ Len(hist[GroupOf(c)].delivered) < MaxDeliveries
    /\ XReadGroup(c)

TrimConsume(c) ==
    \/ XGroupCreate(c)
    \/ TrimRead(c)
    \/ Decode(c)
    \/ LibAttempt(c)
    \/ Sleep(c)
    \/ AckOrLog(c)
    \/ DispatchExcept(c)

\* a producer's XADD on the full stream
TrimProduce ==
    /\ produced < MaxTrimPublish
    /\ produced' = produced + 1
    /\ lastId' = lastId + 1
    /\ \E drop \in 0..Excess(Append(stream, NoEntry)) :
          stream' = XAdd(stream, lastId + 1, [event |-> JsonDumps(SmallEvent)], drop)
    /\ UNCHANGED <<groups, lastDelivered, pending, pc, cur, event, retryVars,
                   dbVars, auxVars, hist>>

NextTrim ==
    \/ TrimProduce
    \/ TrimConsume(LibConsumer)

SpecTrim == InitTrim /\ [][NextTrim]_vars

\* the consumer process keeps running; producers may stop
FairTrim == SpecTrim /\ WF_vars(TrimConsume(LibConsumer))

-----------------------------------------------------------------------------
(* consume stopped by KeyboardInterrupt (SpecCancel)                       *)

\* KeyboardInterrupt is raised in the thread running consume; it is not an
\* Exception, so no inner except clause catches it: it reaches
\* "except KeyboardInterrupt" of consume from wherever the loop is
Interrupt(c) ==
    /\ pc[c] \notin {"off", "stopped"}
    /\ pc' = [pc EXCEPT ![c] = "stopped"]
    /\ UNCHANGED <<brokerVars, produced, cur, event, retryVars, dbVars, auxVars,
                   hist>>

\* consume is started by one consumer on an empty stream
InitOne ==
    /\ InitCommon
    /\ pc = [c \in Consumers |-> IF c = LibConsumer THEN "init" ELSE "off"]
    /\ event = [c \in Consumers |-> NoEvent]
    /\ maxRetries = [c \in Consumers |-> ConsumeMaxRetries]

NextCancel ==
    \/ LibProduce
    \/ LibConsume(LibConsumer)
    \/ Interrupt(LibConsumer)

SpecCancel == InitOne /\ [][NextCancel]_vars

\* the consumer process keeps running until it is interrupted
FairCancel == SpecCancel /\ WF_vars(LibConsume(LibConsumer))

-----------------------------------------------------------------------------
(* consume whose broker calls may fail (SpecBroker)                        *)

BrokerFaultLeft(c) == Len(hist[GroupOf(c)].failed) < MaxBrokerFaults

\* try: xgroup_create(...) except Exception: pass -- every error of the
\* call is passed over, a connection error as well as "group exists"
AfterCreateError == "poll"

\* xgroup_create raises a connection error: no group is created
CreateFails(c) ==
    /\ pc[c] = "init"
    /\ BrokerFaultLeft(c)
    /\ hist' = [hist EXCEPT ![GroupOf(c)].failed = Append(@, "xgroup_create")]
    /\ pc' = [pc EXCEPT ![c] = AfterCreateError]
    /\ UNCHANGED <<brokerVars, produced, cur, event, retryVars, dbVars, auxVars>>

ReadErrorContained == "poll"
\* xreadgroup is called outside the inner try: its error reaches
\* "except Exception as e: logger.error(...); raise" of consume
AfterReadError == "raised"

\* xreadgroup raises: a connection error, or NOGROUP when the group was
\* not created
ReadFails(c) ==
    /\ pc[c] = "poll"
    /\ GroupOf(c) \notin groups \/ BrokerFaultLeft(c)
    /\ hist' = [hist EXCEPT ![GroupOf(c)].failed = Append(@, "xreadgroup")]
    /\ pc' = [pc EXCEPT ![c] = AfterReadError]
    /\ UNCHANGED <<brokerVars, produced, cur, event, retryVars, dbVars, auxVars>>

\* xack is called inside the inner try: its error is caught by the except
\* clause around the dispatch of the entry
AfterAckError == "except"

\* the handler succeeded and xack raises a connection error
AckFails(c) ==
    /\ pc[c] = "returned"
    /\ ShouldAck(result[c])
    /\ BrokerFaultLeft(c)
    /\ hist' = [hist EXCEPT
                  ![GroupOf(c)].failed = Append(@, "xack"),
                  ![GroupOf(c)].succeeded = @ \cup {cur[c].id}]
    /\ pc' = [pc EXCEPT ![c] = AfterAckError]
    /\ UNCHANGED <<brokerVars, produced, cur, event, retryVars, dbVars, auxVars>>

NextBroker ==
    \/ LibProduce
    \/ LibConsume(LibConsumer)
    \/ CreateFails(LibConsumer)
    \/ ReadFails(LibConsumer)
    \/ AckFails(LibConsumer)

SpecBroker == InitOne /\ [][NextBroker]_vars

-----------------------------------------------------------------------------
(* The API gateway's create_order (SpecGateway)                            *)

\* a DecimalField value and what float(...) makes of it
Decimal(n) == <<"Decimal", n>>
Float(dec) == <<"float", dec[2]>>

\* request bodies: one product, two products the second without a name,
\* no product, a quantity of zero
GatewayRequests ==
    << [user_id |-> "uuid-u1", shipping_address |-> "addr", user_email |-> "a@b",
        products |-> <<[product_id |-> "uuid-p1", quantity |-> 1,
                        price |-> Decimal(10), name |-> "n"]>>],
       [user_id |-> "uuid-u1", shipping_address |-> "addr", user_email |-> "a@b",
        products |-> <<[product_id |-> "uuid-p1", quantity |-> 1,
                        price |-> Decimal(10), name |-> "n"],
                       [product_id |-> "uuid-p2", quantity |-> 2,
                        price |-> Decimal(5)]>>],
       [user_id |-> "uuid-u1", shipping_address |-> "addr", user_email |-> "a@b",
        products |-> <<>>],
       [user_id |-> "uuid-u1", shipping_address |-> "addr", user_email |-> "a@b",
        products |-> <<[product_id |-> "uuid-p1", quantity |-> 0,
                        price |-> Decimal(10), name |-> "n"]>>] >>

\* CreateOrderSerializer(data=request.data).is_valid()
IsValidRequest(data) ==
    /\ IsUuid(data.user_id)
    /\ data.products # <<>>
    /\ \A i \in DOMAIN data.products :
          /\ IsUuid(data.products[i].product_id)
          /\ data.products[i].quantity >= 1

RECURSIVE SumAmounts(_, _)
\* sum(product['price'] * product['quantity'] for product in products)
SumAmounts(products, i) ==
    IF i > Len(products) THEN 0
    ELSE products[i].price[2] * products[i].quantity + SumAmounts(products, i + 1)

\* the OrderCreatedEvent create_order builds for validated data
GatewayEvent(data, order_id, event_id) ==
    OrderCreatedEvent(event_id, "t0", "1.0", order_id, data.user_id,
        [i \in DOMAIN data.products |->
            [product_id |-> data.products[i].product_id,
             quantity   |-> data.products[i].quantity,
             price      |-> Float(data.products[i].price),
             name       |-> Get(data.products[i], "name", "")]],
        Float(Decimal(SumAmounts(data.products, 1))),
        data.shipping_address, data.user_email)

Response(status, order_id) == [status |-> status, order_id |-> order_id]

gwDone(g, response) ==
    [g EXCEPT !.pc = "idle", !.data = NoEvent, !.order_id = NoValue,
              !.event = NoEvent, !.responses = Append(@, response)]

notGwVars ==
    <<groups, lastDelivered, pending, produced, pc, cur, event, retryVars,
      orderDb, notifDb, outbox, hist, dbFault, pub, mark, codec, race, lsn>>

\* the request is validated (400 on invalid data), the order id is drawn
\* and the event is built
GwReceive ==
    /\ gw.pc = "idle"
    /\ gw.calls < MaxRequests
    /\ \E i \in DOMAIN GatewayRequests :
        LET data == GatewayRequests[i] IN
        IF ~ IsValidRequest(data)
           THEN /\ gw' = [gwDone(gw, Response(400, NoValue)) EXCEPT !.calls = @ + 1]
                /\ UNCHANGED uuids
           ELSE /\ gw' = [gw EXCEPT
                            !.pc = "publish",
                            !.calls = @ + 1,
                            !.data = data,
                            !.order_id = Uuid4(uuids + 1),
                            !.event = GatewayEvent(data, Uuid4(uuids + 1),
                                                   Uuid4(uuids + 2))]
                /\ uuids' = uuids + 2
    /\ UNCHANGED <<stream, lastId, notGwVars>>

CreatesRegardless(success) == "create"
\* if not success: return Response(..., status=500), else go on to
\* Order.objects.create
AfterPublish(success) == IF success THEN "create" ELSE "respond"

\* success = event_publisher.publish(stream, event.to_dict()), and the
\* 500 response when it returned False
GwPublish ==
    /\ gw.pc = "publish"
    /\ \E brokerOk \in BOOLEAN :
        LET success == PublishAppends(to_dict(gw.event), brokerOk) IN
        /\ IF success
              THEN /\ lastId' = lastId + 1
                   /\ \E drop \in 0..Excess(Append(stream, NoEntry)) :
                         stream' = XAdd(stream, lastId + 1,
                                        [event |-> JsonDumps(to_dict(gw.event))],
                                        drop)
              ELSE UNCHANGED <<stream, lastId>>
        /\ gw' = IF AfterPublish(success) = "create"
                    THEN [gw EXCEPT !.pc = "create"]
                    ELSE gwDone(gw, Response(500, gw.order_id))
    /\ UNCHANGED <<uuids, notGwVars>>

\* Order.objects.create(order_id=..., status='pending', ...) and the 201
\* response; an exception of the database is answered with 500
GwCreate ==
    /\ gw.pc = "create"
    /\ \E dbOk \in BOOLEAN :
        gw' = IF dbOk
                 THEN [gwDone(gw, Response(201, gw.order_id)) EXCEPT
                          !.orders = @ \cup
                              {[order_id |-> gw.order_id,
                                user_id |-> gw.data.user_id,
                                status |-> "pending",
                                total_amount |->
                                    Decimal(SumAmounts(gw.data.products, 1))]}]
                 ELSE gwDone(gw, Response(500, gw.order_id))
    /\ UNCHANGED <<stream, lastId, uuids, notGwVars>>

NextGateway ==
    \/ GwReceive
    \/ GwPublish
    \/ GwCreate

SpecGateway == InitIdle /\ [][NextGateway]_vars

-----------------------------------------------------------------------------
(* Events through to_dict and from_dict (SpecCodec, SpecDecode)            *)

ProductChoices ==
    { [product_id |-> "uuid-p1", quantity |-> 1, price |-> 10, name |-> "n"],
      [product_id |-> "uuid-p2", quantity |-> 2, price |-> 5, name |-> NoValue] }

\* the product lists of up to MaxProducts products
ProductLists == UNION {[1..n -> ProductChoices] : n \in 0..MaxProducts}

\* the arguments an OrderCreatedEvent is constructed with
OrderCreatedArgs ==
    {[event_id |-> i, timestamp |-> "t0", version |-> v, order_id |-> "uuid-o1",
      user_id |-> "uuid-u1", products |-> ps, total_amount |-> 20,
      shipping_address |-> "addr", user_email |-> m] :
        i \in {"e1", "e2"}, v \in {"1.0", "2.0"}, ps \in ProductLists,
        m \in {"a@b", ""}}

\* the arguments an OrderStatusUpdatedEvent is constructed with
OrderStatusUpdatedArgs ==
    {[event_id |-> i, timestamp |-> "t0", version |-> v, order_id |-> "uuid-o1",
      status |-> st, previous_status |-> "pending", updated_at |-> "t1",
      user_email |-> m] :
        i \in {"e1", "e2"}, v \in {"1.0", "2.0"},
        st \in {"processing", "completed", "cancelled"}, m \in {"a@b", ""}}

ArgsOf(cls) ==
    IF cls = ORDER_CREATED THEN OrderCreatedArgs ELSE OrderStatusUpdatedArgs

notCodecVars ==
    <<brokerVars, produced, pc, cur, event, retryVars, dbVars, hist, dbFault,
      pub, mark, gw, race, lsn>>

\* an event class and the arguments of an event to construct
InitCodec ==
    /\ stream = <<>>
    /\ lastId = 0
    /\ InitBase
    /\ pc = [c \in Consumers |-> "off"]
    /\ event = [c \in Consumers |-> NoEvent]
    /\ maxRetries = [c \in Consumers |-> ConsumeMaxRetries]
    /\ \E cls \in {ORDER_CREATED, ORDER_STATUS_UPDATED} : \E a \in ArgsOf(cls) :
          codec = [pc |-> "new", cls |-> cls, args |-> a]

\* from events.schemas import ...; e = cls(**args); d = e.to_dict();
\* back = cls.from_dict(d)
RoundTrip ==
    /\ codec.pc = "new"
    /\ codec' =
          IF DataclassRaises(FieldsOf(codec.cls))
             THEN [codec EXCEPT !.pc = "TypeError"]
             ELSE LET e == Construct(codec.cls, codec.args) IN
                  [pc |-> "done", cls |-> codec.cls, args |-> codec.args,
                   e |-> e, d |-> to_dict(e),
                   back |-> FromDict(codec.cls, to_dict(e))]
    /\ UNCHANGED notCodecVars

SpecCodec == InitCodec /\ [][RoundTrip]_vars

\* dictionary d without the key k
Without(d, k) == [x \in DOMAIN d \ {k} |-> d[x]]

\* values of event_type: the two tags of EventType and another one
EventTypeValues == {ORDER_CREATED, ORDER_STATUS_UPDATED, "PaymentProcessed"}

\* the dictionaries that differ from d in one place: a key of the
\* envelope, of data or of a product is absent, or event_type is another
\* value
Variants(d) ==
    {d}
    \cup {Without(d, k) : k \in DOMAIN d}
    \cup {[d EXCEPT !.data = Without(@, k)] : k \in DOMAIN d.data}
    \cup (IF Has(d.data, "products")
             THEN {[d EXCEPT !.data.products[i] = Without(@, k)] :
                      i \in DOMAIN d.data.products, k \in ProductKeys \cup {"name"}}
             ELSE {})
    \cup {[d EXCEPT !.event_type = t] : t \in EventTypeValues}

\* the envelope dictionaries handed to from_dict
DecodeDicts ==
    UNION {UNION {Variants(to_dict(Construct(cls, a))) :
                     a \in {x \in ArgsOf(cls) :
                               x.event_id = "e1" /\ x.version = "1.0"}} :
              cls \in {ORDER_CREATED, ORDER_STATUS_UPDATED}}

\* an event class and a dictionary to decode with it
InitDecode ==
    /\ stream = <<>>
    /\ lastId = 0
    /\ InitBase
    /\ pc = [c \in Consumers |-> "off"]
    /\ event = [c \in Consumers |-> NoEvent]
    /\ maxRetries = [c \in Consumers |-> ConsumeMaxRetries]
    /\ \E cls \in {ORDER_CREATED, ORDER_STATUS_UPDATED} : \E d \in DecodeDicts :
          codec = [pc |-> "dict", cls |-> cls, d |-> d]

\* back = cls.from_dict(d)
FromDictCall ==
    /\ codec.pc = "dict"
    /\ codec' =
          IF FromDictRaises(codec.cls, codec.d)
             THEN [codec EXCEPT !.pc = "KeyError"]
             ELSE [pc |-> "decoded", cls |-> codec.cls, d |-> codec.d,
                   back |-> FromDict(codec.cls, codec.d)]
    /\ UNCHANGED notCodecVars

SpecDecode == InitDecode /\ [][FromDictCall]_vars

(* (SpecPub)                                                               *)

\* a JSON object without the key event_id
NoIdEvent ==
    [event_type |-> "AnyEvent", timestamp |-> "t0", version |-> "1.0",
     data |-> [order_id |-> "uuid-o1"]]

PubEvents == <<GoodOrderCreated, NoTypeEvent, NoIdEvent>>

\* everything but the broker's log and the caller of publish
notPubVars ==
    <<produced, groups, lastDelivered, pending, pc, cur, event, retryVars,
      dbVars, hist, dbFault, mark, gw, codec, race, lsn>>

\* publish(stream_name, event) is called
PubCall ==
    /\ pub.pc \in {"idle", "returned"}
    /\ pub.calls < MaxPubCalls
    /\ \E i \in DOMAIN PubEvents :
          pub' = [pc |-> "xadd", d |-> PubEvents[i], xadds |-> 0,
                  appended |-> FALSE, ret |-> FALSE, calls |-> pub.calls + 1]
    /\ UNCHANGED <<stream, lastId, notPubVars>>

\* self.redis.xadd(stream_name, {"event": json.dumps(event)}, maxlen=10000):
\* the broker appends the entry, or the call raises
PubXAdd ==
    /\ pub.pc = "xadd"
    /\ \E brokerOk \in BOOLEAN :
          IF PublishAppends(pub.d, brokerOk)
             THEN /\ lastId' = lastId + 1
                  /\ \E drop \in 0..Excess(Append(stream, NoEntry)) :
                        stream' = XAdd(stream, lastId + 1,
                                       [event |-> JsonDumps(pub.d)], drop)
                  /\ pub' = [pub EXCEPT !.pc = "log", !.xadds = @ + 1,
                                        !.appended = TRUE]
             ELSE /\ pub' = [pub EXCEPT !.pc = "except", !.xadds = @ + 1]
                  /\ UNCHANGED <<stream, lastId>>
    /\ UNCHANGED notPubVars

\* logger.info(f"Published event {event['event_id']} ..."), return True;
\* event['event_id'] raises KeyError if the key is missing
PubLogInfo ==
    /\ pub.pc = "log"
    /\ pub' = IF Has(pub.d, "event_id")
                 THEN [pub EXCEPT !.pc = "returned", !.ret = TRUE]
                 ELSE [pub EXCEPT !.pc = "except"]
    /\ UNCHANGED <<stream, lastId, notPubVars>>

RetryOnPublishError(xadds) == IF xadds < 2 THEN "retry" ELSE "return_false"
\* except Exception as e: logger.error(...); return False
OnPublishError(xadds) == "return_false"

PubExcept ==
    /\ pub.pc = "except"
    /\ pub' = [pub EXCEPT
                  !.pc = CASE OnPublishError(pub.xadds) = "return_false" -> "returned"
                           [] OnPublishError(pub.xadds) = "retry" -> "xadd"
                           [] OTHER -> "raised",
                  !.ret = FALSE]
    /\ UNCHANGED <<stream, lastId, notPubVars>>

NextPub ==
    \/ PubCall
    \/ PubXAdd
    \/ PubLogInfo
    \/ PubExcept

\* publish is called on an empty stream nobody reads
SpecPub == InitIdle /\ [][NextPub]_vars

-----------------------------------------------------------------------------
(* mark_event_processed called by several processes at once (SpecMark):    *)
(* get_or_create is a SELECT, then an INSERT, then a second SELECT if the  *)
(* INSERT broke the unique constraint on event_id; every statement commits *)
(* on its own, the handlers open no transaction                            *)

\* event ids the callers mark
MarkIds == {"e1", "e2"}

RowExists(rows, event_id) == \E i \in DOMAIN rows : rows[i].event_id = event_id

NoUniqueConstraint == FALSE
\* event_id = models.CharField(max_length=255, unique=True, db_index=True)
UniqueEventId == TRUE

\* everything but the callers of mark_event_processed
notMarkVars ==
    <<brokerVars, produced, pc, cur, event, retryVars, dbVars, hist, dbFault, pub,
      gw, codec, race, lsn>>

\* mark_event_processed(event_id, event_type) is called by process p
MarkCall(p) ==
    /\ mark.pc[p] \in {"idle", "done"}
    /\ mark.calls[p] < MaxMarks
    /\ \E id \in MarkIds :
          mark' = [mark EXCEPT !.pc[p] = "get",
                               !.arg[p] = id,
                               !.existed[p] = RowExists(mark.rows, id),
                               !.calls[p] = @ + 1]
    /\ UNCHANGED notMarkVars

\* get_or_create: self.get(event_id=event_id)
MarkGet(p) ==
    /\ mark.pc[p] = "get"
    /\ mark' = [mark EXCEPT !.pc[p] =
                    IF RowExists(mark.rows, mark.arg[p]) THEN "done" ELSE "create"]
    /\ UNCHANGED notMarkVars

\* get_or_create: self.create(event_id=event_id, event_type=event_type); the
\* unique constraint makes the INSERT raise IntegrityError
MarkCreate(p) ==
    /\ mark.pc[p] = "create"
    /\ IF UniqueEventId /\ RowExists(mark.rows, mark.arg[p])
          THEN mark' = [mark EXCEPT !.pc[p] = "get_again"]
          ELSE mark' = [mark EXCEPT
                          !.pc[p] = "done",
                          !.rows = Append(@, [event_id |-> mark.arg[p],
                                              event_type |-> ORDER_CREATED,
                                              pk |-> Len(mark.rows) + 1])]
    /\ UNCHANGED notMarkVars

\* get_or_create: after IntegrityError, self.get(event_id=event_id) once
\* more; the IntegrityError is raised again if there still is no row
MarkGetAgain(p) ==
    /\ mark.pc[p] = "get_again"
    /\ mark' = [mark EXCEPT !.pc[p] =
                    IF RowExists(mark.rows, mark.arg[p]) THEN "done" ELSE "raised"]
    /\ UNCHANGED notMarkVars

NextMark ==
    \E p \in MarkCallers :
        \/ MarkCall(p)
        \/ MarkGet(p)
        \/ MarkCreate(p)
        \/ MarkGetAgain(p)

SpecMark == InitIdle /\ [][NextMark]_vars

-----------------------------------------------------------------------------
(* Properties of consume with an arbitrary handler (SpecLib, FairLib) *)

EntryIds == 1..lastId

Last(seq) == seq[Len(seq)]

\* the attempts of a log, in order
Attempts(l) == SelectSeq(l, LAMBDA x : x[1] = "attempt")

\* the waits of a log, in order
Waits(l) ==
    LET sl == SelectSeq(l, LAMBDA x : x[1] = "sleep")
    IN  [i \in DOMAIN sl |-> sl[i][2]]

AllFailed(l) == \A i \in DOMAIN l : l[i][1] = "attempt" => l[i][3] # "true"

\* C1, first half: an entry leaves the pending set of its group only in a
\* step of the consumer that is dispatching it, after _process_with_retry
\* returned true for it, its last attempt being a handler call that
\* returned true.
C1_AckStep ==
    \A g \in Groups : \A id \in PendingIds(g) :
        id \notin PendingIds(g)' =>
            \E c \in Consumers :
                /\ GroupOf(c) = g
                /\ <<id, c>> \in pending[g]
                /\ cur[c].id = id
                /\ pc[c] = "returned"
                /\ result[c] = TRUE
                /\ Len(log[c]) > 0
                /\ Last(log[c])[1] = "attempt"
                /\ Last(log[c])[3] = "true"

\* C1, second half: when _process_with_retry returned after the handler
\* failed (false or raise) on every one of its 3 attempts, the entry is in
\* the pending set, and every entry whose delivery ended that way stays
\* pending and is never acknowledged.
C1_ExhaustedPending ==
    /\ \A c \in Consumers :
          (pc[c] = "returned" /\ AllFailed(log[c])) =>
              /\ Len(Attempts(log[c])) = ConsumeMaxRetries
              /\ result[c] = FALSE
              /\ cur[c].id \in PendingIds(GroupOf(c))
    /\ \A g \in Groups : \A id \in hist[g].exhausted :
          /\ id \in PendingIds(g)
          /\ id \notin Range(hist[g].acked)

\* C1: an entry is acknowledged only after _process_with_retry returned
\* true for it in the current delivery; an entry whose handler failed on
\* all 3 attempts is not acknowledged and stays pending.
C1_AckOnlyAfterSuccess == [][C1_AckStep]_vars /\ [] C1_ExhaustedPending

\* C1 witness: one entry was acknowledged after a success and another is
\* pending after three failed attempts.
C1_Witness ==
    /\ hist[LibGroup].acked # <<>>
    /\ \E id \in hist[LibGroup].exhausted :
          /\ id \in PendingIds(LibGroup)
          /\ Count(hist[LibGroup].called, id) = ConsumeMaxRetries

\* C2 (the claim as stated): an entry whose handler failed on all attempts
\* is eventually delivered to the group a second time.
C2_RedeliveredAfterExhaustion ==
    \A id \in 1..MaxPublish :
        (id \in hist[LibGroup].exhausted)
            ~> (Count(hist[LibGroup].delivered, id) >= 2)

\* C3: once an entry has been acknowledged for a group, no later read of
\* any consumer of that group returns it.
C3_AckedNeverRedelivered ==
    [][\A c \in Consumers :
          (pc[c] = "poll" /\ pc'[c] = "decode") =>
              cur'[c].id \notin Range(hist[GroupOf(c)].acked)]_vars

\* C3 witness: an entry was acknowledged and a later entry was read by the
\* same group.
C3_Witness ==
    \E c \in LibConsumers :
        /\ pc[c] = "decode"
        /\ hist[LibGroup].acked # <<>>
        /\ cur[c].id > hist[LibGroup].acked[1]

\* true of an entry whose payload consume cannot decode
Undecodable(id) ==
    \E i \in DOMAIN stream : stream[i].id = id /\ DecodeRaises(stream[i].fields)

\* C4 (the claim as stated): an undecodable entry never reaches the handler
\* and, once its dispatch is over, has been acknowledged and is not pending.
C4_PoisonAcknowledged ==
    \A g \in Groups : \A id \in hist[g].errored :
        Undecodable(id) =>
            /\ id \notin Range(hist[g].called)
            /\ id \in Range(hist[g].acked)
            /\ id \notin PendingIds(g)

\* C4 (amended): an undecodable entry never reaches the handler and is not
\* acknowledged: from its delivery on it stays in the pending set.
C4_PoisonLeftPending ==
    \A g \in Groups : \A id \in Range(hist[g].delivered) :
        Undecodable(id) =>
            /\ id \notin Range(hist[g].called)
            /\ id \notin Range(hist[g].acked)
            /\ id \in PendingIds(g)

\* C4 witness: the dispatch of an undecodable entry is over, a later entry
\* has been read, and the undecodable one is still pending.
C4_Witness ==
    \E id \in hist[LibGroup].errored :
        /\ Undecodable(id)
        /\ id \in PendingIds(LibGroup)
        /\ \E c \in LibConsumers : pc[c] = "poll" /\ <<id, c>> \in pending[LibGroup]

-----------------------------------------------------------------------------
(* Properties of _process_with_retry (SpecRetry) *)

RetryLog == log[LibConsumer]
RetryMax == maxRetries[LibConsumer]
RetryPc  == pc[LibConsumer]

IsFailedAttempt(x) == x[1] = "attempt" /\ x[3] \in {"false", "raise"}

\* what follows entry i of the log, a failed attempt k: if k+1 < max_retries
\* a wait of exactly 2^k and then attempt k+1; otherwise nothing, the call
\* having returned false
FollowedByBackoff(l, i, max) ==
    LET k == l[i][2] IN
    IF k + 1 < max
       THEN /\ i = Len(l) => RetryPc = "sleep"
            /\ i < Len(l) => l[i + 1] = <<"sleep", 2 ^ k, "">>
            /\ i + 1 = Len(l) => RetryPc = "attempt"
            /\ i + 1 < Len(l) => (l[i + 2][1] = "attempt" /\ l[i + 2][2] = k + 1)
       ELSE /\ i = Len(l)
            /\ RetryPc = "returned"
            /\ result[LibConsumer] = FALSE

\* C6: every failed attempt k with k+1 < max_retries is followed by a wait
\* of exactly 2^k before attempt k+1, the failed attempt max_retries-1 is
\* followed by no wait and an immediate return of false, and there is no
\* other wait.
C6_BackoffSchedule ==
    /\ \A i \in DOMAIN RetryLog :
          IsFailedAttempt(RetryLog[i]) =>
              FollowedByBackoff(RetryLog, i, RetryMax)
    /\ \A i \in DOMAIN RetryLog :
          RetryLog[i][1] = "sleep" =>
              i > 1 /\ IsFailedAttempt(RetryLog[i - 1])

\* C6 witness: with max_retries = 4 the call returned false after failing
\* by a false return and by an exception, having waited 1, 2 and 4.
C6_Witness ==
    /\ RetryPc = "returned"
    /\ RetryMax = 4
    /\ Waits(RetryLog) = <<1, 2, 4>>
    /\ \E i, j \in DOMAIN RetryLog :
          RetryLog[i][3] = "false" /\ RetryLog[j][3] = "raise"
    /\ IsFailedAttempt(Last(RetryLog))

\* the waits 1, 2, ..., 2^(j-1)
Doubling(j) == [i \in 1..j |-> 2 ^ (i - 1)]

\* C7: the call stops at the first successful attempt: after j failures and
\* a success there were exactly j+1 handler invocations, the waits were
\* 1, 2, ..., 2^(j-1) in that order and the result is true; when no attempt
\* succeeded there were exactly max_retries invocations and the result is
\* false. No attempt follows a successful one.
C7_StopsAtFirstSuccess ==
    LET a == Attempts(RetryLog) IN
    /\ \A i \in DOMAIN a : a[i][3] = "true" => i = Len(a)
    /\ \A i \in DOMAIN a : a[i][2] = i - 1
    /\ RetryPc = "returned" =>
          IF AllFailed(RetryLog)
             THEN /\ Len(a) = RetryMax
                  /\ result[LibConsumer] = FALSE
             ELSE /\ Len(a) <= RetryMax
                  /\ Waits(RetryLog) = Doubling(Len(a) - 1)
                  /\ Last(RetryLog)[3] = "true"
                  /\ result[LibConsumer] = TRUE
    /\ (RetryLog # <<>> /\ Last(RetryLog)[3] = "true") => RetryPc = "returned"

\* C7 witness: the handler failed twice and succeeded on the third attempt
\* of three: 3 invocations, waits 1 and 2, result true.
C7_Witness ==
    /\ RetryPc = "returned"
    /\ RetryMax = 3
    /\ result[LibConsumer] = TRUE
    /\ Len(Attempts(RetryLog)) = 3
    /\ Waits(RetryLog) = <<1, 2>>

\* the log with every raise read as a false return
AsFalse(l) ==
    [i \in DOMAIN l |-> IF l[i][3] = "raise" THEN <<l[i][1], l[i][2], "false">>
                        ELSE l[i]]

\* C8: an attempt that raises is treated like one that returns false (the
\* same wait 2^k when k+1 < max_retries, the same return of false when
\* k+1 = max_retries, the same attempt counting), and nothing propagates
\* out of the call: it is running or has returned true or false.
C8_RaiseLikeFalse ==
    /\ RetryPc \in {"attempt", "sleep", "returned"}
    /\ \A i \in DOMAIN RetryLog :
          RetryLog[i][3] = "raise" =>
              LET k == RetryLog[i][2] IN
              /\ k = Len(Attempts(SubSeq(RetryLog, 1, i))) - 1
              /\ IF k + 1 < RetryMax
                    THEN /\ i = Len(RetryLog) => RetryPc = "sleep"
                         /\ i < Len(RetryLog) =>
                               RetryLog[i + 1] = <<"sleep", 2 ^ k, "">>
                    ELSE /\ i = Len(RetryLog)
                         /\ RetryPc = "returned"
                         /\ result[LibConsumer] = FALSE
    /\ (RetryPc = "returned" /\ RetryLog # <<>>) =>
          (result[LibConsumer] <=> Last(AsFalse(RetryLog))[3] = "true")
    /\ (RetryPc = "returned" /\ RetryLog = <<>>) =>
          (RetryMax = 0 /\ result[LibConsumer] = FALSE)

\* C8 witness: the handler raised on every one of 3 attempts and the call
\* returned false.
C8_Witness ==
    /\ RetryPc = "returned"
    /\ RetryMax = 3
    /\ Len(Attempts(RetryLog)) = 3
    /\ \A i \in DOMAIN RetryLog :
          RetryLog[i][1] = "attempt" => RetryLog[i][3] = "raise"
    /\ result[LibConsumer] = FALSE

-----------------------------------------------------------------------------
(* Properties of the two services (Spec) *)

\* the decoded event of entry id, a decodable entry of the stream
EventOf(id) ==
    LET i == CHOOSE i \in DOMAIN stream : stream[i].id = id
    IN  JsonLoads(stream[i].fields)

Decodable(id) ==
    \E i \in DOMAIN stream : stream[i].id = id /\ ~ DecodeRaises(stream[i].fields)

\* entry id carries a JSON object without the key event_type
HasNoType(id) == Decodable(id) /\ ~ Has(EventOf(id), "event_type")

\* the dispatch of entry id by group g is over
Finished(g, id) ==
    id \in hist[g].succeeded \cup hist[g].exhausted \cup hist[g].errored

\* C5 (the claim as stated): for an entry whose JSON object has no
\* event_type, route_event is never called and, once the dispatch is over,
\* the entry has been acknowledged exactly once, in both services.
C5_NoTypeNeverHandled ==
    \A g \in {OrderGroup, NotifGroup} : \A id \in Range(hist[g].delivered) :
        HasNoType(id) =>
            /\ id \notin Range(hist[g].called)
            /\ Finished(g, id) => Count(hist[g].acked, id) = 1

\* C5 (amended): for such an entry route_event is called. In the
\* notification service it is called once, returns true without running
\* handle_order_status_updated (no ProcessedEvent, Notification or e-mail
\* for the event), and the entry is acknowledged exactly once. In the order
\* service it is called 3 times, returns false each time, and the entry is
\* never acknowledged and stays pending.
C5_NoTypeRouted ==
    /\ \A id \in Range(hist[NotifGroup].delivered) :
          HasNoType(id) =>
              /\ Count(hist[NotifGroup].called, id) <= 1
              /\ Count(hist[NotifGroup].acked, id) <= 1
              /\ \A r \in notifDb.processed : r.event_id # EventOf(id).event_id
              /\ \A i \in DOMAIN outbox :
                    outbox[i].for_event # EventOf(id).event_id
              /\ Finished(NotifGroup, id) =>
                    /\ Count(hist[NotifGroup].called, id) = 1
                    /\ Count(hist[NotifGroup].acked, id) = 1
                    /\ id \notin PendingIds(NotifGroup)
    /\ \A id \in Range(hist[OrderGroup].delivered) :
          HasNoType(id) =>
              /\ Count(hist[OrderGroup].acked, id) = 0
              /\ id \in PendingIds(OrderGroup)
              /\ Finished(OrderGroup, id) =>
                    /\ Count(hist[OrderGroup].called, id) = ConsumeMaxRetries
                    /\ id \in hist[OrderGroup].exhausted

\* C5 witness: both services have finished the dispatch of the same entry
\* without event_type.
C5_Witness ==
    \E id \in EntryIds :
        /\ HasNoType(id)
        /\ Finished(OrderGroup, id)
        /\ Finished(NotifGroup, id)

IsOrderStatusUpdated(d) ==
    /\ Get(d, "event_type", NoValue) = ORDER_STATUS_UPDATED
    /\ ~ OrderStatusUpdatedRaises(d)

EmailSentFor(event_id) ==
    \E i \in DOMAIN outbox : outbox[i].for_event = event_id

\* an OrderStatusUpdated event for the order is in the stream
StatusEventPublished(order_id) ==
    \E i \in DOMAIN stream :
        /\ ~ DecodeRaises(stream[i].fields)
        /\ IsOrderStatusUpdated(JsonLoads(stream[i].fields))
        /\ JsonLoads(stream[i].fields).data.order_id = order_id

\* C9 (the claim as stated): a ProcessedEvent record exists only for an
\* event whose effect succeeded: in the notification service only if the
\* e-mail for the event was sent, in the order service (OrderCreated) only
\* if the order is persisted and its OrderStatusUpdated event was published.
C9_MarkedOnlyAfterEffect ==
    /\ \A r \in notifDb.processed : EmailSentFor(r.event_id)
    /\ \A r \in orderDb.processed :
          r.event_type = ORDER_CREATED =>
              \E id \in EntryIds :
                  /\ Decodable(id)
                  /\ Get(EventOf(id), "event_id", NoValue) = r.event_id
                  /\ ~ OrderCreatedRaises(EventOf(id))
                  /\ OrderExists(orderDb, EventOf(id).data.order_id)
                  /\ StatusEventPublished(EventOf(id).data.order_id)

\* C10 (the claim as stated): an OrderStatusUpdated entry is never
\* acknowledged by the notification service while the e-mail for its event
\* has not been sent.
C10_NoAckWithoutEmail ==
    \A id \in Range(hist[NotifGroup].acked) :
        (Decodable(id) /\ IsOrderStatusUpdated(EventOf(id))) =>
            EmailSentFor(EventOf(id).event_id)

-----------------------------------------------------------------------------
(* Idempotency of the handlers (Spec) *)

\* an OrderCreated event every value of which the order service accepts
ValidOrderCreated(d) ==
    /\ Get(d, "event_type", NoValue) = ORDER_CREATED
    /\ ~ OrderCreatedRaises(d)
    /\ IsUuid(d.data.order_id)
    /\ IsUuid(d.data.user_id)
    /\ \A j \in DOMAIN d.data.products : IsUuid(d.data.products[j].product_id)

\* an OrderStatusUpdated event every value of which the notification
\* service accepts
ValidOrderStatusUpdated(d) ==
    IsOrderStatusUpdated(d) /\ IsUuid(d.data.order_id)

\* completed invocations of group g's handler with the event event_id
CallsFor(g, event_id) ==
    Cardinality({i \in DOMAIN hist[g].called :
        Get(EventOf(hist[g].called[i]), "event_id", NoValue) = event_id})

OrdersOf(order_id) == {o \in orderDb.orders : o.order_id = order_id}

ItemsOf(order_id) ==
    SelectSeq(orderDb.items, LAMBDA r : r.order = order_id)

\* OrderStatusUpdated entries of the stream for the order
StatusEventsFor(order_id) ==
    {i \in DOMAIN stream :
        /\ ~ DecodeRaises(stream[i].fields)
        /\ IsOrderStatusUpdated(JsonLoads(stream[i].fields))
        /\ JsonLoads(stream[i].fields).data.order_id = order_id}

EmailsFor(event_id) ==
    {i \in DOMAIN outbox : outbox[i].for_event = event_id}

NotificationsFor(order_id) ==
    {i \in DOMAIN notifDb.notifications :
        notifDb.notifications[i].related_order_id = order_id}

\* C11 (the claim as stated): once a handler has been invoked twice or more
\* with the same event_id its side effect has been applied exactly once:
\* for a valid OrderCreated event there is one order and one published
\* OrderStatusUpdated event, for a valid OrderStatusUpdated event the
\* notification service has sent one e-mail and holds one Notification.
C11_TwiceAppliesOnce ==
    /\ \A id \in Range(hist[OrderGroup].called) :
          (ValidOrderCreated(EventOf(id))
           /\ CallsFor(OrderGroup, EventOf(id).event_id) >= 2) =>
              /\ Cardinality(OrdersOf(EventOf(id).data.order_id)) = 1
              /\ Cardinality(StatusEventsFor(EventOf(id).data.order_id)) = 1
    /\ \A id \in Range(hist[NotifGroup].called) :
          (ValidOrderStatusUpdated(EventOf(id))
           /\ CallsFor(NotifGroup, EventOf(id).event_id) >= 2) =>
              /\ Cardinality(EmailsFor(EventOf(id).event_id)) = 1
              /\ Cardinality(NotificationsFor(EventOf(id).data.order_id)) = 1

\* the handler function route_event of consumer c hands the event to
HandledBy(c, d) ==
    IF c = OrderConsumer
       THEN \/ (Get(d, "event_type", NoValue) = ORDER_CREATED
                /\ ~ OrderCreatedRaises(d))
            \/ IsOrderStatusUpdated(d)
       ELSE IsOrderStatusUpdated(d)

ProcessedOf(c) ==
    IF c = OrderConsumer THEN orderDb.processed ELSE notifDb.processed

\* consumer c's handler is invoked in this step
Invoked(c) == hist'[GroupOf(c)].called # hist[GroupOf(c)].called

\* C13: a handler invoked with an event whose event_id has a ProcessedEvent
\* record returns true and changes nothing: no order, item, notification or
\* processed record is created or modified, no e-mail is sent and no event
\* is published.
C13_ProcessedIsNoOp ==
    [][\A c \in ServiceConsumers :
          (/\ Invoked(c)
           /\ HandledBy(c, event[c])
           /\ \E r \in ProcessedOf(c) : r.event_id = event[c].event_id) =>
              /\ Last(log'[c]) = <<"attempt", attempt[c], "true">>
              /\ orderDb' = orderDb
              /\ notifDb' = notifDb
              /\ outbox' = outbox
              /\ stream' = stream]_vars

\* C13 witness: the order service has been handed a second entry of an
\* OrderCreated event it had processed and acknowledged, and the
\* notification service a retry of an OrderStatusUpdated event it had marked
\* processed; both invocations returned true.
C13_Witness ==
    /\ pc[OrderConsumer] = "returned"
    /\ result[OrderConsumer]
    /\ ValidOrderCreated(event[OrderConsumer])
    /\ \E id \in Range(hist[OrderGroup].acked) :
          /\ id # cur[OrderConsumer].id
          /\ EventOf(id) = event[OrderConsumer]
    /\ pc[NotifConsumer] = "returned"
    /\ result[NotifConsumer]
    /\ ValidOrderStatusUpdated(event[NotifConsumer])
    /\ Len(Attempts(log[NotifConsumer])) = 2

\* C14 (the claim as stated): when handle_order_created is run again for a
\* valid OrderCreated event whose Order row is written and which has no
\* ProcessedEvent record, and the database does not fail during the re-run,
\* the re-run returns true and leaves exactly one order, the event's items,
\* a published OrderStatusUpdated event and a ProcessedEvent record.
C14_RerunCompletes ==
    [][LET c == OrderConsumer
           d == event[c]
       IN  (/\ Invoked(c)
            /\ ValidOrderCreated(d)
            /\ OrderExists(orderDb, d.data.order_id)
            /\ \A r \in orderDb.processed : r.event_id # d.event_id
            /\ dbFault.at = 0) =>
               /\ Last(log'[c]) = <<"attempt", attempt[c], "true">>
               /\ \E r \in orderDb'.processed : r.event_id = d.event_id
               /\ Cardinality({o \in orderDb'.orders :
                                  o.order_id = d.data.order_id}) = 1
               /\ Len(SelectSeq(orderDb'.items,
                                LAMBDA r : r.order = d.data.order_id))
                     = Len(d.data.products)
               /\ \E i \in DOMAIN stream' :
                     /\ ~ DecodeRaises(stream'[i].fields)
                     /\ IsOrderStatusUpdated(JsonLoads(stream'[i].fields))
                     /\ JsonLoads(stream'[i].fields).data.order_id
                           = d.data.order_id]_vars

-----------------------------------------------------------------------------
(* Concurrent mark_event_processed (SpecMark) *)

\* process p takes a step of its mark_event_processed call
MarkSteps(p) == mark'.pc[p] # mark.pc[p] /\ mark.pc[p] \in {"get", "create", "get_again"}

\* C12: under every interleaving of mark_event_processed calls of several
\* processes there is at most one ProcessedEvent row per event_id, no call
\* raises, and a call for an event_id that had a row when it was made
\* leaves the table as it is.
C12_MarkOnce ==
    /\ [](/\ \A i, j \in DOMAIN mark.rows :
                mark.rows[i].event_id = mark.rows[j].event_id => i = j
          /\ \A p \in MarkCallers : mark.pc[p] # "raised")
    /\ [][\A p \in MarkCallers :
             (MarkSteps(p) /\ mark.existed[p]) => mark'.rows = mark.rows]_vars

\* C12 witness: both processes called mark_event_processed for the same
\* event_id before either had inserted; one INSERT went through, the other
\* broke the unique constraint and its call has returned all the same.
C12_Witness ==
    \E p, q \in MarkCallers :
        /\ p # q
        /\ mark.arg[p] = mark.arg[q]
        /\ ~ mark.existed[p]
        /\ ~ mark.existed[q]
        /\ mark.pc[p] = "done"
        /\ mark.pc[q] = "get_again"
        /\ RowExists(mark.rows, mark.arg[p])

-----------------------------------------------------------------------------
(* Consumers of one group (SpecLib) *)

\* C15: within a group an entry is pending for one consumer only, and while
\* it is pending it has been delivered once: no other consumer of the group
\* is handed it.
C15_SingleOwner ==
    /\ \A p, q \in pending[LibGroup] : p[1] = q[1] => p = q
    /\ \A id \in PendingIds(LibGroup) : Count(hist[LibGroup].delivered, id) = 1

\* C15 witness: the two consumers of the group are dispatching two
\* different entries at the same time, each pending for its own consumer.
C15_Witness ==
    /\ pc[LibConsumer] = "attempt"
    /\ pc[LibConsumer2] = "attempt"
    /\ cur[LibConsumer].id # cur[LibConsumer2].id
    /\ <<cur[LibConsumer].id, LibConsumer>> \in pending[LibGroup]
    /\ <<cur[LibConsumer2].id, LibConsumer2>> \in pending[LibGroup]

\* C19: when consume is started for a group that exists, the create-group
\* call changes neither the group's last-delivered position nor its pending
\* entries, and the loop goes on to poll.
C19_CreateKeepsGroup ==
    [][\A c \in LibConsumers :
          (pc[c] = "init" /\ pc'[c] # "init" /\ GroupOf(c) \in groups) =>
              /\ groups' = groups
              /\ lastDelivered' = lastDelivered
              /\ pending' = pending
              /\ pc'[c] = "poll"]_vars

\* C19 witness: a consumer was started when its group had delivered an
\* entry and had an entry pending, and it has gone on to dispatch an entry
\* of its own.
C19_Witness ==
    /\ hist[LibGroup].rejoined
    /\ \E c \in LibConsumers : pc[c] = "attempt" /\ cur[c].id > 1

-----------------------------------------------------------------------------
(* publish (SpecPub) *)

\* C17: publish lets no exception of the append escape: a call whose xadd
\* raised returns false, and every call that has returned has made exactly
\* one xadd.
C17_PublishNeverRaises ==
    /\ pub.pc # "raised"
    /\ pub.xadds <= 1
    /\ pub.pc = "returned" =>
          /\ pub.xadds = 1
          /\ ~ pub.appended => pub.ret = FALSE

\* C17 witness: the second call of publish has returned false after its one
\* xadd raised.
C17_Witness ==
    /\ pub.pc = "returned"
    /\ pub.calls = 2
    /\ pub.xadds = 1
    /\ ~ pub.appended
    /\ pub.ret = FALSE

-----------------------------------------------------------------------------
(* The bounded stream (SpecTrim, FairTrim) *)

InStream(id) == \E i \in DOMAIN stream : stream[i].id = id

DeliveredTo(g, id) == id \in Range(hist[g].delivered)

\* the entries the consumer of SpecTrim gets to if none is evicted
OldestIds == 1..MaxDeliveries

C18_AtMostMaxLen ==
    /\ Len(stream) <= MaxLen
    /\ \A i \in DOMAIN stream : stream[i].id = lastId - Len(stream) + i

-----------------------------------------------------------------------------
(* Cancellation (SpecCancel, FairCancel) *)

\* C20 (the claim as stated): consume stops on KeyboardInterrupt only
\* between two cycles of its loop, when no entry is being dispatched.
C20_StopsBetweenCycles ==
    [][\A c \in LibConsumers :
          (pc'[c] = "stopped" /\ pc[c] # "stopped") =>
              (pc[c] \in {"init", "poll"} /\ cur[c] = NoEntry)]_vars

-----------------------------------------------------------------------------
(* Failures met by consume (SpecBroker) *)

\* the entry consumer c is dispatching failed to decode, or its handler
\* failed on every attempt
DispatchFailed(c) ==
    \/ pc[c] = "except" /\ DecodeRaises(cur[c].fields)
    \/ pc[c] = "returned" /\ ~ result[c]

\* C21: a decode failure and a handler failure (false or an exception, on
\* any attempt) never end the consume loop: a failed attempt stays inside
\* _process_with_retry, the step after a failed dispatch is the next poll,
\* and consume ends by raising only from the poll itself.
C21_FailuresKeepLooping ==
    [][\A c \in {LibConsumer} :
          /\ (pc[c] = "attempt" /\ pc'[c] # "attempt") =>
                 pc'[c] \in {"sleep", "returned"}
          /\ (DispatchFailed(c) /\ pc'[c] # pc[c]) =>
                 /\ pc'[c] = "poll"
                 /\ cur'[c] = NoEntry
          /\ (pc'[c] = "raised" /\ pc[c] # "raised") => pc[c] = "poll"]_vars

\* an entry that failed to decode and an entry whose handler gave up were
\* followed by the delivery of a later entry
C21_Witness ==
    LET h == hist[LibGroup] IN
    /\ h.errored # {}
    /\ h.exhausted # {}
    /\ \E i \in DOMAIN h.delivered :
          /\ h.delivered[i] \in h.errored \cup h.exhausted
          /\ i < Len(h.delivered)
    /\ pc[LibConsumer] = "poll"

\* C22 (the claim as stated): whenever a broker call made by consume fails
\* (create-group, xreadgroup or xack), consume stops looping and re-raises.
C22_BrokerFailureFatal ==
    [][\A c \in {LibConsumer} :
          hist'[GroupOf(c)].failed # hist[GroupOf(c)].failed =>
              pc'[c] = "raised"]_vars

\* C22 (as the code has it): of the broker calls consume makes, only a
\* failing xreadgroup ends the loop and is re-raised to the caller, after
\* which consume does nothing more. A failing create-group call is passed
\* over and consume goes on to its first poll without the group; a failing
\* xack is caught around the dispatch of the entry, which stays pending,
\* and consume goes on to the next poll.
C22_OnlyReadFailureFatal ==
    [][\A c \in {LibConsumer} :
          LET g == GroupOf(c) IN
          /\ hist'[g].failed # hist[g].failed =>
                LET call == Last(hist'[g].failed) IN
                /\ call = "xreadgroup" => pc'[c] = "raised"
                /\ call = "xgroup_create" =>
                      pc'[c] = "poll" /\ groups' = groups
                /\ call = "xack" =>
                      /\ pc'[c] = "except"
                      /\ pending' = pending
                      /\ <<cur[c].id, c>> \in pending[g]
          /\ (pc[c] = "except" /\ pc'[c] # pc[c]) =>
                pc'[c] = "poll" /\ pending' = pending
          /\ pc[c] = "raised" => pc'[c] = "raised"]_vars

\* an xack failed, consume went on, and a later xreadgroup failure ended it
C22_Witness ==
    /\ pc[LibConsumer] = "raised"
    /\ hist[LibGroup].failed = <<"xack", "xreadgroup">>
    /\ hist[LibGroup].acked = <<>>
    /\ pending[LibGroup] # {}

-----------------------------------------------------------------------------
(* create_order (SpecGateway) *)

\* the stream holds an OrderCreated entry for order_id
OrderCreatedPublished(order_id) ==
    \E i \in DOMAIN stream :
        /\ ~ DecodeRaises(stream[i].fields)
        /\ LET d == JsonLoads(stream[i].fields) IN
            /\ d.event_type = ORDER_CREATED
            /\ d.data.order_id = order_id

\* C23: in create_order a failed publish ends the request with HTTP 500
\* and without a gateway Order record; a gateway Order record is created
\* only after the publish returned success.
C23_OrderOnlyAfterPublish ==
    /\ [](\A o \in gw.orders : OrderCreatedPublished(o.order_id))
    /\ [][/\ (gw.pc = "publish" /\ stream' = stream /\ gw' # gw) =>
               /\ gw'.pc = "idle"
               /\ gw'.responses = Append(gw.responses, Response(500, gw.order_id))
               /\ gw'.orders = gw.orders
               /\ \A o \in gw.orders : o.order_id # gw.order_id
          /\ gw'.orders # gw.orders =>
               /\ gw.pc = "create"
               /\ OrderCreatedPublished(gw.order_id)
               /\ \E o \in gw'.orders :
                     /\ gw'.orders = gw.orders \cup {o}
                     /\ o.order_id = gw.order_id
                     /\ o.status = "pending"]_vars

\* one request failed at publish and was answered with 500, another one
\* was published and stored
C23_Witness ==
    /\ \E i \in DOMAIN gw.responses :
          /\ gw.responses[i].status = 500
          /\ ~ OrderCreatedPublished(gw.responses[i].order_id)
    /\ \E i \in DOMAIN gw.responses :
          /\ gw.responses[i].status = 201
          /\ \E o \in gw.orders : o.order_id = gw.responses[i].order_id

-----------------------------------------------------------------------------
(* Events a service does not handle (Spec) *)

\* the notification service's route_event has no handler for d
NotForNotification(d) == Get(d, "event_type", NoValue) # ORDER_STATUS_UPDATED

\* C24: the notification service's route_event, given an envelope of any
\* type other than OrderStatusUpdated, returns true on the first attempt
\* without running a handler and without changing any state, and the
\* consumer acknowledges the entry.
C24_OtherTypesAcknowledged ==
    /\ [](\A id \in Range(hist[NotifGroup].delivered) :
            (Decodable(id) /\ NotForNotification(EventOf(id))) =>
                /\ Count(hist[NotifGroup].called, id) <= 1
                /\ Finished(NotifGroup, id) =>
                      /\ Count(hist[NotifGroup].called, id) = 1
                      /\ Count(hist[NotifGroup].acked, id) = 1
                      /\ id \notin PendingIds(NotifGroup))
    /\ [][(/\ Invoked(NotifConsumer)
           /\ NotForNotification(event[NotifConsumer])) =>
              /\ log'[NotifConsumer] = <<<<"attempt", 0, "true">>>>
              /\ pc'[NotifConsumer] = "returned"
              /\ result'[NotifConsumer]
              /\ notifDb' = notifDb
              /\ outbox' = outbox
              /\ orderDb' = orderDb
              /\ stream' = stream]_vars

\* the notification service was handed an OrderCreated event and has
\* acknowledged its entry
C24_Witness ==
    \E id \in hist[NotifGroup].succeeded :
        /\ Decodable(id)
        /\ Get(EventOf(id), "event_type", NoValue) = ORDER_CREATED
        /\ Count(hist[NotifGroup].acked, id) = 1
        /\ notifDb = EmptyNotifDb

-----------------------------------------------------------------------------
(* The event_id handlers see (Spec) *)

\* the event_id of the JSON object that was published in entry e
PublishedEventId(e) == Get(e.fields.event[2], "event_id", NoValue)

-----------------------------------------------------------------------------
(* Event schemas (SpecCodec, SpecDecode) *)

\* C26 (the claim as stated): for every OrderCreatedEvent and
\* OrderStatusUpdatedEvent e, from_dict(to_dict(e)) is an event equal to e.
C26_RoundTrip ==
    codec.pc \notin {"idle", "new"} =>
        /\ codec.pc = "done"
        /\ codec.back = codec.e

\* the keys of data the claim takes as required for each tag
ClaimedDataKeys(cls) ==
    IF cls = ORDER_CREATED THEN OrderCreatedKeys
                           ELSE OrderStatusUpdatedKeys \cup {"user_email"}

\* the cases in which the claim says decoding d as cls fails
ClaimedToFail(cls, d) ==
    \/ \E k \in {"event_type", "event_id", "timestamp", "data"} : ~ Has(d, k)
    \/ d.event_type \notin {ORDER_CREATED, ORDER_STATUS_UPDATED}
    \/ ~ (ClaimedDataKeys(cls) \subseteq DOMAIN d.data)
    \/ /\ cls = ORDER_CREATED
       /\ \E i \in DOMAIN d.data.products :
             \E k \in {"product_id", "quantity", "price"} :
                 ~ Has(d.data.products[i], k)

\* C27 (the claim as stated): decoding fails when a required field of the
\* envelope or of data is absent, when event_type is not a recognized tag,
\* and when data has not the shape of the tag (for example an
\* OrderStatusUpdated payload without user_email).
C27_DecodeFailsAsStated ==
    (codec.pc \in {"decoded", "KeyError"} /\ ClaimedToFail(codec.cls, codec.d)) =>
        codec.pc = "KeyError"

\* C27 (amended): from_dict fails when event_type, event_id, timestamp or
\* data is absent and when data lacks a key the class reads by subscript
\* (OrderCreated: its six keys and product_id, quantity, price of every
\* product; OrderStatusUpdated: order_id, status, previous_status,
\* updated_at), which covers an OrderCreated payload decoded as
\* OrderStatusUpdated. It does not fail otherwise: the value of event_type
\* is not checked and the result carries the tag of the class, an absent
\* version reads "1.0", an absent product name reads None and an absent
\* user_email of OrderStatusUpdated reads "".
C27_DecodeFails ==
    codec.pc \in {"decoded", "KeyError"} =>
        LET d == codec.d
            cls == codec.cls
            envelope == \A k \in {"event_type", "event_id", "timestamp", "data"} :
                            Has(d, k)
            subscripted ==
                IF cls = ORDER_CREATED
                   THEN /\ \A k \in {"order_id", "user_id", "products",
                                      "total_amount", "shipping_address",
                                      "user_email"} : Has(d.data, k)
                        /\ \A i \in DOMAIN d.data.products :
                              \A k \in {"product_id", "quantity", "price"} :
                                  Has(d.data.products[i], k)
                   ELSE \A k \in {"order_id", "status", "previous_status",
                                   "updated_at"} : Has(d.data, k)
        IN  IF envelope /\ subscripted
               THEN /\ codec.pc = "decoded"
                    /\ codec.back.event_type = cls
                    /\ codec.back.event_id = d.event_id
                    /\ codec.back.version = Get(d, "version", "1.0")
                    /\ codec.back.user_email =
                          Get(d.data, "user_email", "")
                    /\ cls = ORDER_CREATED =>
                          \A i \in DOMAIN d.data.products :
                              codec.back.products[i].name =
                                  Get(d.data.products[i], "name", NoValue)
               ELSE codec.pc = "KeyError"

\* an OrderStatusUpdated dictionary without user_email was decoded, an
\* event with the e-mail address "" came out
C27_Witness ==
    /\ codec.pc = "decoded"
    /\ codec.cls = ORDER_STATUS_UPDATED
    /\ ~ Has(codec.d.data, "user_email")
    /\ codec.back.user_email = ""
    /\ codec.back.status = codec.d.data.status

-----------------------------------------------------------------------------
(* End to end (FairSpec) *)

\* the orders of the valid OrderCreated entries the order service has read
ReadOrders ==
    {EventOf(id).data.order_id :
        id \in {x \in Range(hist[OrderGroup].delivered) :
                   Decodable(x) /\ ValidOrderCreated(EventOf(x))}}

\* the stream holds exactly one OrderStatusUpdated entry for the order, from
\* "pending" to "processing", and the notification service has
\* acknowledged that entry once
StatusEventObserved(order_id) ==
    \E i \in DOMAIN stream :
        /\ StatusEventsFor(order_id) = {i}
        /\ EventOf(stream[i].id).data.previous_status = "pending"
        /\ EventOf(stream[i].id).data.status = "processing"
        /\ Count(hist[NotifGroup].acked, stream[i].id) = 1

\* C28 (the claim as stated): after an OrderCreated envelope is published
\* and read by the consumer of the order-service group, exactly one
\* OrderStatusUpdated envelope from "pending" to "processing" is published
\* for its order, and the second consumer group eventually observes and
\* acknowledges exactly that envelope.
C28_EndToEnd ==
    /\ [](\A o \in ReadOrders : Cardinality(StatusEventsFor(o)) <= 1)
    /\ (ReadOrders # {}) ~> (\A o \in ReadOrders : StatusEventObserved(o))

-----------------------------------------------------------------------------
(* Events the order service has no handler for (SpecOrderOnly) *)

\* the order service's route_event has no handler for d
NotForOrderService(d) ==
    Get(d, "event_type", NoValue) \notin {ORDER_CREATED, ORDER_STATUS_UPDATED}

\* three attempts that returned false, with the waits 1 and 2 between them
ThreeFalseAttempts ==
    << <<"attempt", 0, "false">>, <<"sleep", 1, "">>,
       <<"attempt", 1, "false">>, <<"sleep", 2, "">>,
       <<"attempt", 2, "false">> >>

IsPrefix(l, m) == Len(l) <= Len(m) /\ \A i \in DOMAIN l : l[i] = m[i]

\* C29: the order service's route_event, given an envelope whose
\* event_type is neither OrderCreated nor OrderStatusUpdated, returns false
\* without running a handler (no change of the database, nothing
\* published); the consumer makes 3 attempts with the waits 1 and 2 and
\* leaves the entry unacknowledged and pending.
C29_UnknownTypeExhausts ==
    /\ [](\A id \in Range(hist[OrderGroup].delivered) :
            (Decodable(id) /\ NotForOrderService(EventOf(id))) =>
                /\ Count(hist[OrderGroup].acked, id) = 0
                /\ id \in PendingIds(OrderGroup)
                /\ Finished(OrderGroup, id) =>
                      /\ Count(hist[OrderGroup].called, id) = 3
                      /\ id \in hist[OrderGroup].exhausted)
    /\ [](LET c == OrderConsumer IN
          (pc[c] \in {"attempt", "sleep", "returned"}
             /\ NotForOrderService(event[c])) =>
               /\ IsPrefix(log[c], ThreeFalseAttempts)
               /\ pc[c] = "returned" =>
                     log[c] = ThreeFalseAttempts /\ ~ result[c])
    /\ [][(Invoked(OrderConsumer) /\ NotForOrderService(event[OrderConsumer])) =>
              /\ orderDb' = orderDb
              /\ stream' = stream
              /\ uuids' = uuids]_vars

\* the dispatch of an entry of type PaymentProcessed is over, the consumer
\* is back at its poll and the entry is pending
C29_Witness ==
    \E id \in hist[OrderGroup].exhausted :
        /\ Decodable(id)
        /\ Get(EventOf(id), "event_type", NoValue) = "PaymentProcessed"
        /\ Count(hist[OrderGroup].called, id) = 3
        /\ id \in PendingIds(OrderGroup)
        /\ pc[OrderConsumer] = "poll"

-----------------------------------------------------------------------------
(* A failed publish of the status event (SpecOrderOnly) *)

\* the order is 'processing' and the stream holds no OrderStatusUpdated
\* entry for it
StatusEventMissing(order_id) ==
    /\ \E o \in orderDb.orders : o.order_id = order_id /\ o.status = "processing"
    /\ StatusEventsFor(order_id) = {}

\* C30: when the publish of the OrderStatusUpdated event fails inside
\* handle_order_created, the handler still writes the ProcessedEvent record
\* and returns true, the OrderCreated entry is acknowledged, and no later
\* delivery or retry publishes the missing event: the order stays
\* 'processing' without a status event in the stream.
C30_FailedPublishIsFinal ==
    /\ [](\A id \in hist[OrderGroup].succeeded :
            (Decodable(id) /\ ValidOrderCreated(EventOf(id))) =>
                /\ Count(hist[OrderGroup].acked, id) = 1
                /\ id \notin PendingIds(OrderGroup))
    /\ [][LET c == OrderConsumer IN
           /\ (/\ Invoked(c)
               /\ ValidOrderCreated(event[c])
               /\ ~ StatusEventMissing(event[c].data.order_id)
               /\ StatusEventMissing(event[c].data.order_id)') =>
                  /\ \E r \in orderDb'.processed :
                        r.event_id = event[c].event_id
                  /\ Last(log'[c]) = <<"attempt", attempt[c], "true">>
                  /\ pc'[c] = "returned"
                  /\ result'[c]
           /\ \A o \in ValidUuids :
                  StatusEventMissing(o) => StatusEventMissing(o)']_vars

\* the publish failed for an order; the entry was acknowledged, a second
\* entry of the same event was delivered and acknowledged as well, and
\* the order's status event is still missing
C30_Witness ==
    /\ StatusEventMissing("uuid-o1")
    /\ \E r \in orderDb.processed : r.event_id = "e1"
    /\ \E id1, id2 \in Range(hist[OrderGroup].acked) :
          /\ id1 # id2
          /\ ValidOrderCreated(EventOf(id1))
          /\ ValidOrderCreated(EventOf(id2))
    /\ pc[OrderConsumer] = "poll"

-----------------------------------------------------------------------------
(* handle_order_status_updated of the notification service run by two      *)
(* processes at once for the same event (SpecRace): the handler opens no   *)
(* transaction, so each of its database statements and the SMTP send is a  *)
(* step of its own                                                         *)

\* the OrderStatusUpdated event both processes are handed
RaceEvent ==
    OrderStatusUpdatedFromDict(
        to_dict(OrderStatusUpdatedEvent("e5", "t1", "1.0", "uuid-o1",
                                        "processing", "pending", "t1", "a@x")))

\* everything but the two processes and their database
notRaceVars ==
    <<brokerVars, produced, pc, cur, event, retryVars, dbVars, hist, dbFault,
      pub, mark, gw, codec, lsn>>

\* handle_order_status_updated(event_data) is called in process p, for a
\* delivery or for a retry
RaceCall(p) ==
    /\ race.pc[p] \in {"idle", "done"}
    /\ race.calls[p] < MaxRaceCalls
    /\ race' = [race EXCEPT !.pc[p] = "check", !.calls[p] = @ + 1,
                            !.ret[p] = NoValue, !.success[p] = FALSE]
    /\ UNCHANGED notRaceVars

\* if is_event_processed(event.event_id): return True
RaceCheck(p) ==
    /\ race.pc[p] = "check"
    /\ IF is_event_processed(race.processed, RaceEvent.event_id)
          THEN race' = [race EXCEPT !.pc[p] = "done", !.ret[p] = TRUE]
          ELSE race' = [race EXCEPT !.pc[p] = "send"]
    /\ UNCHANGED notRaceVars

\* success = send_order_status_email(...): send_mail delivers, or raises and
\* the function returns False
RaceSend(p) ==
    /\ race.pc[p] = "send"
    /\ \E sendOk \in BOOLEAN :
          race' = [race EXCEPT !.pc[p] = "create",
                               !.success[p] = sendOk,
                               !.outbox = SendEmail(@, RaceEvent, sendOk)]
    /\ UNCHANGED notRaceVars

\* Notification.objects.create(notification_id=uuid4(), ...)
RaceCreate(p) ==
    /\ race.pc[p] = "create"
    /\ race' = [race EXCEPT
                  !.pc[p] = "mark",
                  !.uuids = @ + 1,
                  !.notifications =
                      Append(@, [notification_id |-> Uuid4(race.uuids + 1),
                                 row |-> NotificationRow(RaceEvent,
                                                         race.success[p])])]
    /\ UNCHANGED notRaceVars

\* mark_event_processed(event.event_id, ...); return success
RaceMark(p) ==
    /\ race.pc[p] = "mark"
    /\ race' = [race EXCEPT
                  !.pc[p] = "done",
                  !.ret[p] = race.success[p],
                  !.processed = mark_event_processed(@, RaceEvent.event_id,
                                                     ORDER_STATUS_UPDATED)]
    /\ UNCHANGED notRaceVars

NextRace ==
    \E p \in RaceCallers :
        \/ RaceCall(p)
        \/ RaceCheck(p)
        \/ RaceSend(p)
        \/ RaceCreate(p)
        \/ RaceMark(p)

\* two processes are handed the same event while no record of it exists
SpecRace == InitIdle /\ [][NextRace]_vars

\* C31 (the claim as stated): when two consumers run the notification
\* handler at once for the same event_id, neither marked processed yet, the
\* e-mail is sent at most once and at most one Notification record is
\* created, under every interleaving of the two invocations' steps
C31_AtMostOnce ==
    /\ Len(race.outbox) <= 1
    /\ Len(race.notifications) <= 1

-----------------------------------------------------------------------------
(* publish and the stream *)

\* C32 (the claim as stated): publish returns true if and only if the
\* envelope was appended to the stream; whenever it returns false the stream
\* is as it was before the call, for every input dictionary, one without an
\* event_id key included
C32_TrueIffAppended ==
    pub.pc = "returned" => (pub.ret <=> pub.appended)

-----------------------------------------------------------------------------
(* The position a new group starts at *)

-----------------------------------------------------------------------------
(* What a consumer's pending list holds *)

\* ids pending for consumer c in its group
PendingOf(c) == {p[1] : p \in {q \in pending[GroupOf(c)] : q[2] = c}}

\* the entry consumer c read and has not finished dispatching
InFlight(c) == IF cur[c] = NoEntry THEN {} ELSE {cur[c].id}

\* entries whose dispatch ended in retry exhaustion or in the except clause
EndedInFailure(g) == hist[g].exhausted \cup hist[g].errored

\* entries whose dispatch is over and ended with the handler's success and
\* the xack
EndedInSuccess(g) ==
    (hist[g].succeeded \ hist[g].errored) \ UNION {InFlight(c) : c \in Consumers}

\* C34: consume runs one poll/dispatch/acknowledge cycle at a time with at
\* most one entry in flight, and in every reachable state a consumer's
\* pending list consists exactly of the entry it is dispatching (if any)
\* plus the entries of its earlier deliveries that ended in retry exhaustion
\* or in an exception; every entry whose delivery ended in success is absent
\* from the pending list.
C34_PendingIsInFlightPlusFailed ==
    /\ \A c \in LibConsumers :
          LET g == GroupOf(c) IN
          /\ Cardinality(PendingOf(c) \ EndedInFailure(g)) <= 1
          /\ PendingOf(c) \ EndedInFailure(g) = InFlight(c)
          /\ (pc[c] \in {"off", "init", "poll", "raised"}) = (InFlight(c) = {})
    /\ EndedInFailure(LibGroup) \subseteq PendingIds(LibGroup)
    /\ EndedInFailure(LibGroup) \cap UNION {InFlight(c) : c \in LibConsumers} = {}
    /\ EndedInSuccess(LibGroup) \cap PendingIds(LibGroup) = {}
    /\ \A id \in EndedInSuccess(LibGroup) : Count(hist[LibGroup].acked, id) = 1

\* C34 witness: a consumer is dispatching an entry while its pending list
\* also holds the entry of its earlier delivery, which ended in retry
\* exhaustion.
C34_Witness ==
    \E c \in LibConsumers :
        /\ InFlight(c) # {}
        /\ PendingOf(c) \cap hist[LibGroup].exhausted # {}
        /\ Cardinality(PendingOf(c)) = 2

-----------------------------------------------------------------------------
(* The API gateway's listen_order_updates command (SpecListen): the group  *)
(* websocket-listeners read in batches of up to 10 entries, each entry     *)
(* processed in a try block of its own                                     *)

\* the OrderStatusUpdated events that wait in the stream
BacklogEvent ==
    to_dict(OrderStatusUpdatedEvent("e6", "t1", "1.0", "uuid-o1", "processing",
                                    "pending", "t1", "a@x"))

\* an OrderStatusUpdated envelope whose data has no status
NoStatusEvent ==
    [event_type |-> ORDER_STATUS_UPDATED, event_id |-> "e7", timestamp |-> "t1",
     version |-> "1.0",
     data |-> [order_id |-> "uuid-o2", previous_status |-> "pending",
               updated_at |-> "t1"]]

\* an OrderStatusUpdated event of another order
OtherOrderEvent ==
    to_dict(OrderStatusUpdatedEvent("e8", "t2", "1.0", "uuid-o2", "shipped",
                                    "processing", "t2", "b@x"))

ListenPayloads ==
    << [event |-> JsonDumps(OtherOrderEvent)],
       [event |-> JsonDumps(NoStatusEvent)],
       [event |-> JsonDumps(GoodOrderCreated)],
       [event |-> JsonDumps(NoTypeEvent)],
       [event |-> BadJson] >>

\* the stream holds one entry less than a full batch when the command starts
ListenBacklog ==
    [i \in 1..(ListenCount - 1) |->
        [id |-> i, fields |-> [event |-> JsonDumps(BacklogEvent)]]]

InitListen ==
    /\ stream = ListenBacklog
    /\ lastId = Len(ListenBacklog)
    /\ InitRest
    /\ pc = [c \in Consumers |-> "off"]
    /\ event = [c \in Consumers |-> NoEvent]
    /\ maxRetries = [c \in Consumers |-> ConsumeMaxRetries]

\* everything but the stream and the listener
notLsnVars ==
    <<groups, lastDelivered, pending, pc, cur, event, retryVars, dbVars, hist,
      dbFault, pub, mark, gw, codec, race>>

\* a producer's XADD while the listener runs
ListenProduce ==
    /\ produced < MaxListenPublish
    /\ produced' = produced + 1
    /\ lastId' = lastId + 1
    /\ \E i \in DOMAIN ListenPayloads :
          \E drop \in 0..Excess(Append(stream, NoEntry)) :
              stream' = XAdd(stream, lastId + 1, ListenPayloads[i], drop)
    /\ UNCHANGED <<lsn, notLsnVars>>

\* xgroup_create(stream_name, group_name, id="0", mkstream=True), "group
\* already exists" passed over
LsnCreate ==
    /\ lsn.pc = "off"
    /\ lsn' = [lsn EXCEPT !.pc = "poll", !.created = TRUE]
    /\ UNCHANGED <<stream, lastId, produced, notLsnVars>>

\* entries of the stream never delivered to the listener's group
LsnNew == {i \in DOMAIN stream : stream[i].id > lsn.lastDelivered}

\* the first n entries of the stream at the indexes in `new`
RECURSIVE FirstNew(_, _)
FirstNew(new, n) ==
    IF new = {} \/ n = 0 THEN <<>>
    ELSE LET i == CHOOSE i \in new : \A j \in new : i <= j
         IN  <<stream[i]>> \o FirstNew(new \ {i}, n - 1)

\* xreadgroup(group, consumer, {stream: ">"}, count=10, block=1000) when it
\* returns entries
XReadBatch(new) == FirstNew(new, ListenCount)

LsnRead ==
    /\ lsn.pc = "poll"
    /\ LsnNew # {}
    /\ LET batch == XReadBatch(LsnNew) IN
          lsn' = [lsn EXCEPT
                    !.pc = "entry", !.batch = batch, !.i = 1,
                    !.lastDelivered = batch[Len(batch)].id,
                    !.pending = @ \cup {batch[k].id : k \in DOMAIN batch}]
    /\ UNCHANGED <<stream, lastId, produced, notLsnVars>>

\* f'order_{event.order_id}'
RoomGroupName(order_id) == <<"order_", order_id>>

\* the message handed to group_send
StatusMessage(ev) ==
    [type |-> "order_status_update", order_id |-> ev.order_id,
     status |-> ev.status, previous_status |-> ev.previous_status,
     updated_at |-> ev.updated_at]

\* event_data = json.loads(fields[b"event"].decode("utf-8")), the test of
\* event_type and OrderStatusUpdatedEvent.from_dict(event_data)
LsnDecode ==
    /\ lsn.pc = "entry"
    /\ LET fields == lsn.batch[lsn.i].fields IN
       IF DecodeRaises(fields)
          THEN lsn' = [lsn EXCEPT !.pc = "except"]
       ELSE IF Get(JsonLoads(fields), "event_type", NoValue) # ORDER_STATUS_UPDATED
          THEN lsn' = [lsn EXCEPT !.pc = "ack_other"]
       ELSE IF OrderStatusUpdatedRaises(JsonLoads(fields))
          THEN lsn' = [lsn EXCEPT !.pc = "except"]
       ELSE lsn' = [lsn EXCEPT !.pc = "send",
                               !.event = OrderStatusUpdatedFromDict(JsonLoads(fields))]
    /\ UNCHANGED <<stream, lastId, produced, notLsnVars>>

\* async_to_sync(channel_layer.group_send)(room_group_name, {...}): the
\* message is handed to the channel layer, or the call raises
LsnSend ==
    /\ lsn.pc = "send"
    /\ \/ lsn' = [lsn EXCEPT
                    !.pc = "ack",
                    !.sent = Append(@, [id |-> lsn.batch[lsn.i].id,
                                        group |-> RoomGroupName(lsn.event.order_id),
                                        message |-> StatusMessage(lsn.event)])]
       \/ /\ lsn.faults < MaxSendFaults
          /\ lsn' = [lsn EXCEPT !.pc = "except", !.faults = @ + 1]
    /\ UNCHANGED <<stream, lastId, produced, notLsnVars>>

\* the next entry of the batch, or the next xreadgroup
LsnNext(l) ==
    IF l.i < Len(l.batch)
       THEN [l EXCEPT !.pc = "entry", !.i = @ + 1, !.event = NoEvent]
       ELSE [l EXCEPT !.pc = "poll", !.i = @ + 1, !.event = NoEvent]

\* redis_client.xack(stream_name, group_name, msg_id)
LsnXAck(l) ==
    [l EXCEPT !.pending = @ \ {l.batch[l.i].id},
              !.acked = Append(@, l.batch[l.i].id)]

\* the xack after the message was forwarded
LsnAck ==
    /\ lsn.pc = "ack"
    /\ lsn' = LsnNext(LsnXAck(lsn))
    /\ UNCHANGED <<stream, lastId, produced, notLsnVars>>

\* else: "Acknowledge other event types"
LsnAckOther ==
    /\ lsn.pc = "ack_other"
    /\ lsn' = LsnNext(LsnXAck(lsn))
    /\ UNCHANGED <<stream, lastId, produced, notLsnVars>>

LsnErrorAcks(l) == LsnXAck(l)
\* except Exception as e: logger.error(...), "Don't acknowledge on error"
LsnOnError(l) == l

LsnExcept ==
    /\ lsn.pc = "except"
    /\ lsn' = LsnNext([LsnOnError(lsn) EXCEPT !.raised = @ \cup {lsn.batch[lsn.i].id}])
    /\ UNCHANGED <<stream, lastId, produced, notLsnVars>>

NextListen ==
    \/ ListenProduce
    \/ LsnCreate
    \/ LsnRead
    \/ LsnDecode
    \/ LsnSend
    \/ LsnAck
    \/ LsnAckOther
    \/ LsnExcept

SpecListen == InitListen /\ [][NextListen]_vars

\* the entry with this id, while it is in the stream
EntryOf(id) == stream[CHOOSE i \in DOMAIN stream : stream[i].id = id]

\* the entry decodes to an envelope of type OrderStatusUpdated
IsStatusEntry(id) ==
    /\ ~ DecodeRaises(EntryOf(id).fields)
    /\ Get(JsonLoads(EntryOf(id).fields), "event_type", NoValue) = ORDER_STATUS_UPDATED

\* the entry decodes to an envelope of another type, or of no type
IsOtherEntry(id) ==
    /\ ~ DecodeRaises(EntryOf(id).fields)
    /\ Get(JsonLoads(EntryOf(id).fields), "event_type", NoValue) # ORDER_STATUS_UPDATED

\* ids of the entries the message was forwarded for
SentIds(l) == {l.sent[k].id : k \in DOMAIN l.sent}

\* ids of the entries of the current batch whose processing is over
DoneIds(l) == {l.batch[k].id : k \in 1..(l.i - 1)}

\* C35: in the api-gateway listener a batch holds up to 10 entries and each
\* entry is acknowledged on its own: an OrderStatusUpdated entry is
\* acknowledged only after its message was forwarded to the channel group
\* order_<order_id>, every entry of another type is acknowledged without
\* being forwarded, and an entry whose processing raises is left
\* unacknowledged and pending while the remaining entries of the batch are
\* still processed and acknowledged.
C35_AckPerEntry ==
    /\ [](/\ Len(lsn.batch) <= ListenCount
          /\ \A id \in Range(lsn.acked) :
                /\ Count(lsn.acked, id) = 1
                /\ id \notin lsn.pending
                /\ id \notin lsn.raised
                /\ IsStatusEntry(id) =>
                      \E k \in DOMAIN lsn.sent :
                          /\ lsn.sent[k].id = id
                          /\ lsn.sent[k].group =
                                RoomGroupName(JsonLoads(EntryOf(id).fields).data.order_id)
                /\ IsOtherEntry(id) => id \notin SentIds(lsn)
          /\ \A id \in lsn.raised : id \in lsn.pending
          /\ \A id \in DoneIds(lsn) :
                /\ id \in Range(lsn.acked) \cup lsn.raised
                /\ IsOtherEntry(id) => id \in Range(lsn.acked)
                /\ id \in SentIds(lsn) => id \in Range(lsn.acked))
    /\ [][\A id \in Range(lsn'.acked) \ Range(lsn.acked) :
             /\ lsn.pc \in {"ack", "ack_other"}
             /\ id = lsn.batch[lsn.i].id
             /\ IsStatusEntry(id) => id \in SentIds(lsn)]_vars
    /\ [][(lsn.pc = "except" /\ lsn' # lsn) => lsn'.pc \in {"entry", "poll"}]_vars

\* C35 witness: in one batch of 10 entries an entry was forwarded and
\* acknowledged, the processing of a later entry raised and left it pending,
\* and an entry after that one, of another type, was acknowledged without
\* being forwarded.
C35_Witness ==
    /\ Len(lsn.batch) = ListenCount
    /\ \E j, k, m \in DOMAIN lsn.batch :
          /\ j < k /\ k < m /\ m < lsn.i
          /\ lsn.batch[j].id \in SentIds(lsn) \cap Range(lsn.acked)
          /\ lsn.batch[k].id \in lsn.raised \cap lsn.pending
          /\ IsOtherEntry(lsn.batch[m].id)
          /\ lsn.batch[m].id \in Range(lsn.acked) \ SentIds(lsn)

====
